---- MODULE Spec2Model ----
(***************************************************************************)
(* Model of src/bot/perplexity_client.py (class PerplexityClient).         *)
(*                                                                         *)
(* Strings are sequences of Unicode code points, so Len is Python's len    *)
(* and a slice s[:n] is Take(s, n).  Lists are sequences.  The source text *)
(* is modelled as it stands: several of its string and pattern literals    *)
(* carry no backslash (r"**(.*?)**", split(""), "".join(...)), and the     *)
(* model gives them the meaning Python gives them; a string literal that   *)
(* contains a line break denotes a line feed.                              *)
(***************************************************************************)
EXTENDS Integers, Sequences, FiniteSets, TLC

VARIABLES
    pc,                 \* get_crypto_news_content: "idle", "post", "head", "done"
    formatted_date,     \* today.strftime("%B %d, %Y") of the invocation
    formatted_content,  \* the text once fixed (lines 81, 389-402)
    branch,             \* the path that fixed the text
    selected_image,     \* crypto_images[hash_int % len(crypto_images)]
    result,             \* the record returned to the caller
    posts,              \* requests.post calls issued (line 61)
    heads,              \* requests.head calls issued (line 364)
    response,           \* the answer of requests.head once it is given
    calls,              \* invocations started so far
    fn,                 \* function applied in a function-level specification
    arg,                \* its arguments
    ret                 \* its return value

vars == <<pc, formatted_date, formatted_content, branch, selected_image,
          result, posts, heads, response, calls, fn, arg, ret>>

process_vars == <<pc, formatted_date, formatted_content, branch,
                  selected_image, result, posts, heads, response, calls>>

(***************************************************************************)
(* Bounds of the model.                                                    *)
(***************************************************************************)
MaxBullets == 5       \* longest bullet list drawn for _truncate_bullets_refined
MaxBudget == 125      \* largest max_chars drawn for _truncate_bullets_refined
MaxCalls == 2         \* invocations of get_crypto_news_content

(***************************************************************************)
(* Python str and list primitives.                                         *)
(***************************************************************************)
\* the one member of a singleton: The({e(x) : x \in {v}}) is e with v
\* evaluated once and named x, as an assignment x = v followed by e
The(S) == CHOOSE r \in S : TRUE

Min(a, b) == IF a <= b THEN a ELSE b
Max(a, b) == IF a >= b THEN a ELSE b

\* s[:n] for n >= 0 (every slice bound in the source is positive)
Take(s, n) == SubSeq(s, 1, Min(Max(n, 0), Len(s)))

\* s[n:] for n >= 0
Drop(s, n) == SubSeq(s, Min(Max(n, 0), Len(s)) + 1, Len(s))

\* n copies of code point c
Rep(c, n) == [i \in 1..n |-> c]

\* str.isspace of one code point
IsSpace(c) ==
    \/ c \in 9..13 \/ c \in 28..32 \/ c = 133 \/ c = 160 \/ c = 5760
    \/ c \in 8192..8202 \/ c \in {8232, 8233, 8239, 8287, 12288}

RECURSIVE RStripLen(_, _)
RStripLen(s, n) == IF n = 0 \/ ~IsSpace(s[n]) THEN n ELSE RStripLen(s, n - 1)

\* str.rstrip()
RStrip(s) == SubSeq(s, 1, RStripLen(s, Len(s)))

RECURSIVE LStripPos(_, _)
LStripPos(s, i) == IF i > Len(s) \/ ~IsSpace(s[i]) THEN i ELSE LStripPos(s, i + 1)

\* str.strip()
Strip(s) == LET t == RStrip(s) IN SubSeq(t, LStripPos(t, 1), Len(t))

RECURSIVE JoinWith(_, _)
\* sep.join(parts)
JoinWith(sep, parts) ==
    IF Len(parts) = 0 THEN <<>>
    ELSE IF Len(parts) = 1 THEN parts[1]
    ELSE parts[1] \o sep \o JoinWith(sep, Tail(parts))

\* s.startswith(p)
StartsWith(s, p) == Len(s) >= Len(p) /\ SubSeq(s, 1, Len(p)) = p

\* s.endswith(p)
EndsWith(s, p) == Len(s) >= Len(p) /\ SubSeq(s, Len(s) - Len(p) + 1, Len(s)) = p

(***************************************************************************)
(* String constants of the source.                                         *)
(***************************************************************************)
LF == <<10>>
ELLIPSIS == <<8230>>                    \* "…"  (lines 210, 222, 402)
DOTS == <<46, 46, 46>>                  \* "..." (line 314)
BULLET_GLYPH == <<8226, 32>>            \* "• "  (line 251)
TITLE_OPEN == <<128200, 32, 42, 42>>    \* "📈 **" (line 186)
TITLE_CLOSE == <<42, 42>>               \* "**"
DATE_OPEN == <<128197, 32, 42>>         \* "📅 *"  (line 187)
DATE_CLOSE == <<42>>                    \* "*"
\* "Crypto Market Update" (line 183)
DEFAULT_TITLE ==
    <<67, 114, 121, 112, 116, 111, 32, 77, 97, 114, 107, 101, 116, 32, 85,
      112, 100, 97, 116, 101>>
\* "*#CryptoNews #MarketOverview*" (line 192)
hashtags_line ==
    <<42, 35, 67, 114, 121, 112, 116, 111, 78, 101, 119, 115, 32, 35, 77, 97,
      114, 107, 101, 116, 79, 118, 101, 114, 118, 105, 101, 119, 42>>

max_len == 800          \* line 197
min_shorten == 30       \* line 313
min_kept == 3           \* lines 318, 320

(***************************************************************************)
(* _truncate_bullets_refined (lines 297-322).                              *)
(***************************************************************************)
\* line 314: bullet[: available_chars - 3].rstrip() + "..."
shortened(bullet, available_chars) ==
    RStrip(Take(bullet, available_chars - 3)) \o DOTS

RECURSIVE budget_walk(_, _, _, _, _)
\* lines 302-316: the loop, from bullet i on, with the loop's result and
\* current_length so far; the value is the loop's final result
budget_walk(bullets, max_chars, i, res, current_length) ==
    IF i > Len(bullets) THEN res
    ELSE LET bullet == bullets[i]
             bullet_length == Len(bullet) + 1
             available_chars == max_chars - current_length
         IN  IF current_length + bullet_length <= max_chars
             THEN budget_walk(bullets, max_chars, i + 1, Append(res, bullet),
                              current_length + bullet_length)
             ELSE IF available_chars > min_shorten
                  THEN Append(res, shortened(bullet, available_chars))
                  ELSE res

\* the function with the revert of line 318 taken below two bullets
truncate_revert_below_two(bullets, max_chars) ==
    IF max_chars <= 0 THEN <<>>
    ELSE LET res == budget_walk(bullets, max_chars, 1, <<>>, 0)
         IN  IF Len(res) < 2 /\ Len(bullets) > 0
             THEN Take(bullets, min_kept)
             ELSE res

_truncate_bullets_refined(bullets, max_chars) ==
    IF max_chars <= 0 THEN <<>>
    ELSE LET res == budget_walk(bullets, max_chars, 1, <<>>, 0)
         IN  IF Len(res) < min_kept /\ Len(bullets) > 0
             THEN Take(bullets, min_kept)
             ELSE res

(***************************************************************************)
(* Exceptions.  A function that may raise returns a record: exc tells      *)
(* whether it raised, val is its value when it did not.                    *)
(***************************************************************************)
Raised == [exc |-> TRUE, val |-> <<>>]
Value(v) == [exc |-> FALSE, val |-> v]

(***************************************************************************)
(* _generate_comprehensive_bullets (lines 286-295).                        *)
(***************************************************************************)
\* "• Bitcoin maintains consolidation above key support levels with institutional accumulation patterns emerging" (line 289)
COMPREHENSIVE_1 ==
    <<8226, 32, 66, 105, 116, 99, 111, 105, 110, 32, 109, 97, 105, 110, 116, 97,
      105, 110, 115, 32, 99, 111, 110, 115, 111, 108, 105, 100, 97, 116, 105,
      111, 110, 32, 97, 98, 111, 118, 101, 32, 107, 101, 121, 32, 115, 117, 112,
      112, 111, 114, 116, 32, 108, 101, 118, 101, 108, 115, 32, 119, 105, 116,
      104, 32, 105, 110, 115, 116, 105, 116, 117, 116, 105, 111, 110, 97, 108,
      32, 97, 99, 99, 117, 109, 117, 108, 97, 116, 105, 111, 110, 32, 112, 97,
      116, 116, 101, 114, 110, 115, 32, 101, 109, 101, 114, 103, 105, 110, 103>>
\* "• Ethereum demonstrates network resilience with increasing validator participation and Layer 2 adoption growth" (line 290)
COMPREHENSIVE_2 ==
    <<8226, 32, 69, 116, 104, 101, 114, 101, 117, 109, 32, 100, 101, 109, 111,
      110, 115, 116, 114, 97, 116, 101, 115, 32, 110, 101, 116, 119, 111, 114,
      107, 32, 114, 101, 115, 105, 108, 105, 101, 110, 99, 101, 32, 119, 105,
      116, 104, 32, 105, 110, 99, 114, 101, 97, 115, 105, 110, 103, 32, 118, 97,
      108, 105, 100, 97, 116, 111, 114, 32, 112, 97, 114, 116, 105, 99, 105,
      112, 97, 116, 105, 111, 110, 32, 97, 110, 100, 32, 76, 97, 121, 101, 114,
      32, 50, 32, 97, 100, 111, 112, 116, 105, 111, 110, 32, 103, 114, 111, 119,
      116, 104>>
\* "• Top altcoins including BNB, XRP, and SOL show divergent performance reflecting sector-specific developments" (line 291)
COMPREHENSIVE_3 ==
    <<8226, 32, 84, 111, 112, 32, 97, 108, 116, 99, 111, 105, 110, 115, 32, 105,
      110, 99, 108, 117, 100, 105, 110, 103, 32, 66, 78, 66, 44, 32, 88, 82, 80,
      44, 32, 97, 110, 100, 32, 83, 79, 76, 32, 115, 104, 111, 119, 32, 100,
      105, 118, 101, 114, 103, 101, 110, 116, 32, 112, 101, 114, 102, 111, 114,
      109, 97, 110, 99, 101, 32, 114, 101, 102, 108, 101, 99, 116, 105, 110,
      103, 32, 115, 101, 99, 116, 111, 114, 45, 115, 112, 101, 99, 105, 102,
      105, 99, 32, 100, 101, 118, 101, 108, 111, 112, 109, 101, 110, 116, 115>>
\* "• Market sentiment indicators suggest cautious optimism amid ongoing regulatory clarity initiatives" (line 292)
COMPREHENSIVE_4 ==
    <<8226, 32, 77, 97, 114, 107, 101, 116, 32, 115, 101, 110, 116, 105, 109,
      101, 110, 116, 32, 105, 110, 100, 105, 99, 97, 116, 111, 114, 115, 32,
      115, 117, 103, 103, 101, 115, 116, 32, 99, 97, 117, 116, 105, 111, 117,
      115, 32, 111, 112, 116, 105, 109, 105, 115, 109, 32, 97, 109, 105, 100,
      32, 111, 110, 103, 111, 105, 110, 103, 32, 114, 101, 103, 117, 108, 97,
      116, 111, 114, 121, 32, 99, 108, 97, 114, 105, 116, 121, 32, 105, 110,
      105, 116, 105, 97, 116, 105, 118, 101, 115>>
\* "• DeFi and AI token sectors attract renewed interest following recent technological breakthroughs" (line 293)
COMPREHENSIVE_5 ==
    <<8226, 32, 68, 101, 70, 105, 32, 97, 110, 100, 32, 65, 73, 32, 116, 111,
      107, 101, 110, 32, 115, 101, 99, 116, 111, 114, 115, 32, 97, 116, 116,
      114, 97, 99, 116, 32, 114, 101, 110, 101, 119, 101, 100, 32, 105, 110,
      116, 101, 114, 101, 115, 116, 32, 102, 111, 108, 108, 111, 119, 105, 110,
      103, 32, 114, 101, 99, 101, 110, 116, 32, 116, 101, 99, 104, 110, 111,
      108, 111, 103, 105, 99, 97, 108, 32, 98, 114, 101, 97, 107, 116, 104, 114,
      111, 117, 103, 104, 115>>
\* "• Technical analysis reveals critical support and resistance zones shaping near-term price trajectories" (line 294)
COMPREHENSIVE_6 ==
    <<8226, 32, 84, 101, 99, 104, 110, 105, 99, 97, 108, 32, 97, 110, 97, 108,
      121, 115, 105, 115, 32, 114, 101, 118, 101, 97, 108, 115, 32, 99, 114,
      105, 116, 105, 99, 97, 108, 32, 115, 117, 112, 112, 111, 114, 116, 32, 97,
      110, 100, 32, 114, 101, 115, 105, 115, 116, 97, 110, 99, 101, 32, 122,
      111, 110, 101, 115, 32, 115, 104, 97, 112, 105, 110, 103, 32, 110, 101,
      97, 114, 45, 116, 101, 114, 109, 32, 112, 114, 105, 99, 101, 32, 116, 114,
      97, 106, 101, 99, 116, 111, 114, 105, 101, 115>>

_generate_comprehensive_bullets ==
    <<COMPREHENSIVE_1, COMPREHENSIVE_2, COMPREHENSIVE_3, COMPREHENSIVE_4,
      COMPREHENSIVE_5, COMPREHENSIVE_6>>

(***************************************************************************)
(* _enhance_short_bullet (lines 265-284).                                  *)
(***************************************************************************)
\* the dict of lines 268-274, in insertion order: each key and its enhancement
enhancements ==
    <<<<<<98, 105, 116, 99, 111, 105, 110>>,      \* "bitcoin" (line 269)
        <<66, 105, 116, 99, 111, 105, 110, 32, 99, 111, 110, 116, 105, 110,
         117, 101, 115, 32, 105, 116, 115, 32, 109, 97, 114, 107, 101, 116,
         32, 108, 101, 97, 100, 101, 114, 115, 104, 105, 112, 32, 119, 105,
         116, 104, 32, 105, 110, 115, 116, 105, 116, 117, 116, 105, 111, 110,
         97, 108, 32, 105, 110, 116, 101, 114, 101, 115, 116>>>>,
      <<<<101, 116, 104, 101, 114, 101, 117, 109>>,      \* "ethereum" (line 270)
        <<69, 116, 104, 101, 114, 101, 117, 109, 32, 115, 104, 111, 119, 115,
         32, 110, 101, 116, 119, 111, 114, 107, 32, 115, 116, 114, 101, 110,
         103, 116, 104, 32, 97, 109, 105, 100, 32, 111, 110, 103, 111, 105,
         110, 103, 32, 100, 101, 118, 101, 108, 111, 112, 109, 101, 110,
         116>>>>,
      <<<<109, 97, 114, 107, 101, 116>>,      \* "market" (line 271)
        <<77, 97, 114, 107, 101, 116, 32, 100, 121, 110, 97, 109, 105, 99,
         115, 32, 114, 101, 102, 108, 101, 99, 116, 32, 98, 114, 111, 97, 100,
         101, 114, 32, 101, 99, 111, 110, 111, 109, 105, 99, 32, 115, 101,
         110, 116, 105, 109, 101, 110, 116>>>>,
      <<<<112, 114, 105, 99, 101>>,      \* "price" (line 272)
        <<80, 114, 105, 99, 101, 32, 97, 99, 116, 105, 111, 110, 32, 105, 110,
         100, 105, 99, 97, 116, 101, 115, 32, 107, 101, 121, 32, 116, 101, 99,
         104, 110, 105, 99, 97, 108, 32, 108, 101, 118, 101, 108, 115>>>>,
      <<<<116, 114, 97, 100, 105, 110, 103>>,      \* "trading" (line 273)
        <<84, 114, 97, 100, 105, 110, 103, 32, 118, 111, 108, 117, 109, 101,
         115, 32, 115, 117, 103, 103, 101, 115, 116, 32, 105, 110, 99, 114,
         101, 97, 115, 101, 100, 32, 109, 97, 114, 107, 101, 116, 32, 112, 97,
         114, 116, 105, 99, 105, 112, 97, 116, 105, 111, 110>>>>>>

enhance_limit == 50     \* line 278

\* the code points str.lower() maps to one other code point: from lo to hi in
\* steps of step, each to itself plus delta (Unicode 14.0.0)
LOWER_RANGES ==
    <<<<65, 90, 1, 32>>, <<192, 214, 1, 32>>, <<216, 222, 1, 32>>, <<256,
      302, 2, 1>>, <<306, 310, 2, 1>>, <<313, 327, 2, 1>>, <<330, 374, 2,
      1>>, <<376, 376, 1, -121>>, <<377, 381, 2, 1>>, <<385, 385, 1, 210>>,
      <<386, 388, 2, 1>>, <<390, 390, 1, 206>>, <<391, 391, 1, 1>>, <<393,
      394, 1, 205>>, <<395, 395, 1, 1>>, <<398, 398, 1, 79>>, <<399, 399, 1,
      202>>, <<400, 400, 1, 203>>, <<401, 401, 1, 1>>, <<403, 403, 1, 205>>,
      <<404, 404, 1, 207>>, <<406, 406, 1, 211>>, <<407, 407, 1, 209>>,
      <<408, 408, 1, 1>>, <<412, 412, 1, 211>>, <<413, 413, 1, 213>>, <<415,
      415, 1, 214>>, <<416, 420, 2, 1>>, <<422, 422, 1, 218>>, <<423, 423,
      1, 1>>, <<425, 425, 1, 218>>, <<428, 428, 1, 1>>, <<430, 430, 1,
      218>>, <<431, 431, 1, 1>>, <<433, 434, 1, 217>>, <<435, 437, 2, 1>>,
      <<439, 439, 1, 219>>, <<440, 440, 1, 1>>, <<444, 444, 1, 1>>, <<452,
      452, 1, 2>>, <<453, 453, 1, 1>>, <<455, 455, 1, 2>>, <<456, 456, 1,
      1>>, <<458, 458, 1, 2>>, <<459, 475, 2, 1>>, <<478, 494, 2, 1>>,
      <<497, 497, 1, 2>>, <<498, 500, 2, 1>>, <<502, 502, 1, -97>>, <<503,
      503, 1, -56>>, <<504, 542, 2, 1>>, <<544, 544, 1, -130>>, <<546, 562,
      2, 1>>, <<570, 570, 1, 10795>>, <<571, 571, 1, 1>>, <<573, 573, 1,
      -163>>, <<574, 574, 1, 10792>>, <<577, 577, 1, 1>>, <<579, 579, 1,
      -195>>, <<580, 580, 1, 69>>, <<581, 581, 1, 71>>, <<582, 590, 2, 1>>,
      <<880, 882, 2, 1>>, <<886, 886, 1, 1>>, <<895, 895, 1, 116>>, <<902,
      902, 1, 38>>, <<904, 906, 1, 37>>, <<908, 908, 1, 64>>, <<910, 911, 1,
      63>>, <<913, 929, 1, 32>>, <<931, 939, 1, 32>>, <<975, 975, 1, 8>>,
      <<984, 1006, 2, 1>>, <<1012, 1012, 1, -60>>, <<1015, 1015, 1, 1>>,
      <<1017, 1017, 1, -7>>, <<1018, 1018, 1, 1>>, <<1021, 1023, 1, -130>>,
      <<1024, 1039, 1, 80>>, <<1040, 1071, 1, 32>>, <<1120, 1152, 2, 1>>,
      <<1162, 1214, 2, 1>>, <<1216, 1216, 1, 15>>, <<1217, 1229, 2, 1>>,
      <<1232, 1326, 2, 1>>, <<1329, 1366, 1, 48>>, <<4256, 4293, 1, 7264>>,
      <<4295, 4295, 1, 7264>>, <<4301, 4301, 1, 7264>>, <<5024, 5103, 1,
      38864>>, <<5104, 5109, 1, 8>>, <<7312, 7354, 1, -3008>>, <<7357, 7359,
      1, -3008>>, <<7680, 7828, 2, 1>>, <<7838, 7838, 1, -7615>>, <<7840,
      7934, 2, 1>>, <<7944, 7951, 1, -8>>, <<7960, 7965, 1, -8>>, <<7976,
      7983, 1, -8>>, <<7992, 7999, 1, -8>>, <<8008, 8013, 1, -8>>, <<8025,
      8031, 2, -8>>, <<8040, 8047, 1, -8>>, <<8072, 8079, 1, -8>>, <<8088,
      8095, 1, -8>>, <<8104, 8111, 1, -8>>, <<8120, 8121, 1, -8>>, <<8122,
      8123, 1, -74>>, <<8124, 8124, 1, -9>>, <<8136, 8139, 1, -86>>, <<8140,
      8140, 1, -9>>, <<8152, 8153, 1, -8>>, <<8154, 8155, 1, -100>>, <<8168,
      8169, 1, -8>>, <<8170, 8171, 1, -112>>, <<8172, 8172, 1, -7>>, <<8184,
      8185, 1, -128>>, <<8186, 8187, 1, -126>>, <<8188, 8188, 1, -9>>,
      <<8486, 8486, 1, -7517>>, <<8490, 8490, 1, -8383>>, <<8491, 8491, 1,
      -8262>>, <<8498, 8498, 1, 28>>, <<8544, 8559, 1, 16>>, <<8579, 8579,
      1, 1>>, <<9398, 9423, 1, 26>>, <<11264, 11311, 1, 48>>, <<11360,
      11360, 1, 1>>, <<11362, 11362, 1, -10743>>, <<11363, 11363, 1,
      -3814>>, <<11364, 11364, 1, -10727>>, <<11367, 11371, 2, 1>>, <<11373,
      11373, 1, -10780>>, <<11374, 11374, 1, -10749>>, <<11375, 11375, 1,
      -10783>>, <<11376, 11376, 1, -10782>>, <<11378, 11378, 1, 1>>,
      <<11381, 11381, 1, 1>>, <<11390, 11391, 1, -10815>>, <<11392, 11490,
      2, 1>>, <<11499, 11501, 2, 1>>, <<11506, 11506, 1, 1>>, <<42560,
      42604, 2, 1>>, <<42624, 42650, 2, 1>>, <<42786, 42798, 2, 1>>,
      <<42802, 42862, 2, 1>>, <<42873, 42875, 2, 1>>, <<42877, 42877, 1,
      -35332>>, <<42878, 42886, 2, 1>>, <<42891, 42891, 1, 1>>, <<42893,
      42893, 1, -42280>>, <<42896, 42898, 2, 1>>, <<42902, 42920, 2, 1>>,
      <<42922, 42922, 1, -42308>>, <<42923, 42923, 1, -42319>>, <<42924,
      42924, 1, -42315>>, <<42925, 42925, 1, -42305>>, <<42926, 42926, 1,
      -42308>>, <<42928, 42928, 1, -42258>>, <<42929, 42929, 1, -42282>>,
      <<42930, 42930, 1, -42261>>, <<42931, 42931, 1, 928>>, <<42932, 42946,
      2, 1>>, <<42948, 42948, 1, -48>>, <<42949, 42949, 1, -42307>>,
      <<42950, 42950, 1, -35384>>, <<42951, 42953, 2, 1>>, <<42960, 42960,
      1, 1>>, <<42966, 42968, 2, 1>>, <<42997, 42997, 1, 1>>, <<65313,
      65338, 1, 32>>, <<66560, 66599, 1, 40>>, <<66736, 66771, 1, 40>>,
      <<66928, 66964, 2, 39>>, <<66929, 66937, 2, 39>>, <<66941, 66953, 2,
      39>>, <<66957, 66961, 2, 39>>, <<66965, 66965, 1, 39>>, <<68736,
      68786, 1, 64>>, <<71840, 71871, 1, 32>>, <<93760, 93791, 1, 32>>,
      <<125184, 125217, 1, 34>>>>

\* the runs lo..hi of cased code points that are not case-ignorable
CASED_RUNS ==
    <<<<65, 90>>, <<97, 122>>, <<170, 170>>, <<181, 181>>, <<186, 186>>,
      <<192, 214>>, <<216, 246>>, <<248, 442>>, <<444, 447>>, <<452, 659>>,
      <<661, 687>>, <<880, 883>>, <<886, 887>>, <<891, 893>>, <<895, 895>>,
      <<902, 902>>, <<904, 906>>, <<908, 908>>, <<910, 929>>, <<931, 1013>>,
      <<1015, 1153>>, <<1162, 1327>>, <<1329, 1366>>, <<1376, 1416>>,
      <<4256, 4293>>, <<4295, 4295>>, <<4301, 4301>>, <<4304, 4346>>,
      <<4349, 4351>>, <<5024, 5109>>, <<5112, 5117>>, <<7296, 7304>>,
      <<7312, 7354>>, <<7357, 7359>>, <<7424, 7467>>, <<7531, 7543>>,
      <<7545, 7578>>, <<7680, 7957>>, <<7960, 7965>>, <<7968, 8005>>,
      <<8008, 8013>>, <<8016, 8023>>, <<8025, 8025>>, <<8027, 8027>>,
      <<8029, 8029>>, <<8031, 8061>>, <<8064, 8116>>, <<8118, 8124>>,
      <<8126, 8126>>, <<8130, 8132>>, <<8134, 8140>>, <<8144, 8147>>,
      <<8150, 8155>>, <<8160, 8172>>, <<8178, 8180>>, <<8182, 8188>>,
      <<8450, 8450>>, <<8455, 8455>>, <<8458, 8467>>, <<8469, 8469>>,
      <<8473, 8477>>, <<8484, 8484>>, <<8486, 8486>>, <<8488, 8488>>,
      <<8490, 8493>>, <<8495, 8500>>, <<8505, 8505>>, <<8508, 8511>>,
      <<8517, 8521>>, <<8526, 8526>>, <<8544, 8575>>, <<8579, 8580>>,
      <<9398, 9449>>, <<11264, 11387>>, <<11390, 11492>>, <<11499, 11502>>,
      <<11506, 11507>>, <<11520, 11557>>, <<11559, 11559>>, <<11565,
      11565>>, <<42560, 42605>>, <<42624, 42651>>, <<42786, 42863>>,
      <<42865, 42887>>, <<42891, 42894>>, <<42896, 42954>>, <<42960,
      42961>>, <<42963, 42963>>, <<42965, 42969>>, <<42997, 42998>>,
      <<43002, 43002>>, <<43824, 43866>>, <<43872, 43880>>, <<43888,
      43967>>, <<64256, 64262>>, <<64275, 64279>>, <<65313, 65338>>,
      <<65345, 65370>>, <<66560, 66639>>, <<66736, 66771>>, <<66776,
      66811>>, <<66928, 66938>>, <<66940, 66954>>, <<66956, 66962>>,
      <<66964, 66965>>, <<66967, 66977>>, <<66979, 66993>>, <<66995,
      67001>>, <<67003, 67004>>, <<68736, 68786>>, <<68800, 68850>>,
      <<71840, 71903>>, <<93760, 93823>>, <<119808, 119892>>, <<119894,
      119964>>, <<119966, 119967>>, <<119970, 119970>>, <<119973, 119974>>,
      <<119977, 119980>>, <<119982, 119993>>, <<119995, 119995>>, <<119997,
      120003>>, <<120005, 120069>>, <<120071, 120074>>, <<120077, 120084>>,
      <<120086, 120092>>, <<120094, 120121>>, <<120123, 120126>>, <<120128,
      120132>>, <<120134, 120134>>, <<120138, 120144>>, <<120146, 120485>>,
      <<120488, 120512>>, <<120514, 120538>>, <<120540, 120570>>, <<120572,
      120596>>, <<120598, 120628>>, <<120630, 120654>>, <<120656, 120686>>,
      <<120688, 120712>>, <<120714, 120744>>, <<120746, 120770>>, <<120772,
      120779>>, <<122624, 122633>>, <<122635, 122654>>, <<125184, 125251>>,
      <<127280, 127305>>, <<127312, 127337>>, <<127344, 127369>>>>

\* the runs lo..hi of case-ignorable code points
CASE_IGNORABLE_RUNS ==
    <<<<39, 39>>, <<46, 46>>, <<58, 58>>, <<94, 94>>, <<96, 96>>, <<168,
      168>>, <<173, 173>>, <<175, 175>>, <<180, 180>>, <<183, 184>>, <<688,
      879>>, <<884, 885>>, <<890, 890>>, <<900, 901>>, <<903, 903>>, <<1155,
      1161>>, <<1369, 1369>>, <<1375, 1375>>, <<1425, 1469>>, <<1471,
      1471>>, <<1473, 1474>>, <<1476, 1477>>, <<1479, 1479>>, <<1524,
      1524>>, <<1536, 1541>>, <<1552, 1562>>, <<1564, 1564>>, <<1600,
      1600>>, <<1611, 1631>>, <<1648, 1648>>, <<1750, 1757>>, <<1759,
      1768>>, <<1770, 1773>>, <<1807, 1807>>, <<1809, 1809>>, <<1840,
      1866>>, <<1958, 1968>>, <<2027, 2037>>, <<2042, 2042>>, <<2045,
      2045>>, <<2070, 2093>>, <<2137, 2139>>, <<2184, 2184>>, <<2192,
      2193>>, <<2200, 2207>>, <<2249, 2306>>, <<2362, 2362>>, <<2364,
      2364>>, <<2369, 2376>>, <<2381, 2381>>, <<2385, 2391>>, <<2402,
      2403>>, <<2417, 2417>>, <<2433, 2433>>, <<2492, 2492>>, <<2497,
      2500>>, <<2509, 2509>>, <<2530, 2531>>, <<2558, 2558>>, <<2561,
      2562>>, <<2620, 2620>>, <<2625, 2626>>, <<2631, 2632>>, <<2635,
      2637>>, <<2641, 2641>>, <<2672, 2673>>, <<2677, 2677>>, <<2689,
      2690>>, <<2748, 2748>>, <<2753, 2757>>, <<2759, 2760>>, <<2765,
      2765>>, <<2786, 2787>>, <<2810, 2815>>, <<2817, 2817>>, <<2876,
      2876>>, <<2879, 2879>>, <<2881, 2884>>, <<2893, 2893>>, <<2901,
      2902>>, <<2914, 2915>>, <<2946, 2946>>, <<3008, 3008>>, <<3021,
      3021>>, <<3072, 3072>>, <<3076, 3076>>, <<3132, 3132>>, <<3134,
      3136>>, <<3142, 3144>>, <<3146, 3149>>, <<3157, 3158>>, <<3170,
      3171>>, <<3201, 3201>>, <<3260, 3260>>, <<3263, 3263>>, <<3270,
      3270>>, <<3276, 3277>>, <<3298, 3299>>, <<3328, 3329>>, <<3387,
      3388>>, <<3393, 3396>>, <<3405, 3405>>, <<3426, 3427>>, <<3457,
      3457>>, <<3530, 3530>>, <<3538, 3540>>, <<3542, 3542>>, <<3633,
      3633>>, <<3636, 3642>>, <<3654, 3662>>, <<3761, 3761>>, <<3764,
      3772>>, <<3782, 3782>>, <<3784, 3789>>, <<3864, 3865>>, <<3893,
      3893>>, <<3895, 3895>>, <<3897, 3897>>, <<3953, 3966>>, <<3968,
      3972>>, <<3974, 3975>>, <<3981, 3991>>, <<3993, 4028>>, <<4038,
      4038>>, <<4141, 4144>>, <<4146, 4151>>, <<4153, 4154>>, <<4157,
      4158>>, <<4184, 4185>>, <<4190, 4192>>, <<4209, 4212>>, <<4226,
      4226>>, <<4229, 4230>>, <<4237, 4237>>, <<4253, 4253>>, <<4348,
      4348>>, <<4957, 4959>>, <<5906, 5908>>, <<5938, 5939>>, <<5970,
      5971>>, <<6002, 6003>>, <<6068, 6069>>, <<6071, 6077>>, <<6086,
      6086>>, <<6089, 6099>>, <<6103, 6103>>, <<6109, 6109>>, <<6155,
      6159>>, <<6211, 6211>>, <<6277, 6278>>, <<6313, 6313>>, <<6432,
      6434>>, <<6439, 6440>>, <<6450, 6450>>, <<6457, 6459>>, <<6679,
      6680>>, <<6683, 6683>>, <<6742, 6742>>, <<6744, 6750>>, <<6752,
      6752>>, <<6754, 6754>>, <<6757, 6764>>, <<6771, 6780>>, <<6783,
      6783>>, <<6823, 6823>>, <<6832, 6862>>, <<6912, 6915>>, <<6964,
      6964>>, <<6966, 6970>>, <<6972, 6972>>, <<6978, 6978>>, <<7019,
      7027>>, <<7040, 7041>>, <<7074, 7077>>, <<7080, 7081>>, <<7083,
      7085>>, <<7142, 7142>>, <<7144, 7145>>, <<7149, 7149>>, <<7151,
      7153>>, <<7212, 7219>>, <<7222, 7223>>, <<7288, 7293>>, <<7376,
      7378>>, <<7380, 7392>>, <<7394, 7400>>, <<7405, 7405>>, <<7412,
      7412>>, <<7416, 7417>>, <<7468, 7530>>, <<7544, 7544>>, <<7579,
      7679>>, <<8125, 8125>>, <<8127, 8129>>, <<8141, 8143>>, <<8157,
      8159>>, <<8173, 8175>>, <<8189, 8190>>, <<8203, 8207>>, <<8216,
      8217>>, <<8228, 8228>>, <<8231, 8231>>, <<8234, 8238>>, <<8288,
      8292>>, <<8294, 8303>>, <<8305, 8305>>, <<8319, 8319>>, <<8336,
      8348>>, <<8400, 8432>>, <<11388, 11389>>, <<11503, 11505>>, <<11631,
      11631>>, <<11647, 11647>>, <<11744, 11775>>, <<11823, 11823>>,
      <<12293, 12293>>, <<12330, 12333>>, <<12337, 12341>>, <<12347,
      12347>>, <<12441, 12446>>, <<12540, 12542>>, <<40981, 40981>>,
      <<42232, 42237>>, <<42508, 42508>>, <<42607, 42610>>, <<42612,
      42621>>, <<42623, 42623>>, <<42652, 42655>>, <<42736, 42737>>,
      <<42752, 42785>>, <<42864, 42864>>, <<42888, 42890>>, <<42994,
      42996>>, <<43000, 43001>>, <<43010, 43010>>, <<43014, 43014>>,
      <<43019, 43019>>, <<43045, 43046>>, <<43052, 43052>>, <<43204,
      43205>>, <<43232, 43249>>, <<43263, 43263>>, <<43302, 43309>>,
      <<43335, 43345>>, <<43392, 43394>>, <<43443, 43443>>, <<43446,
      43449>>, <<43452, 43453>>, <<43471, 43471>>, <<43493, 43494>>,
      <<43561, 43566>>, <<43569, 43570>>, <<43573, 43574>>, <<43587,
      43587>>, <<43596, 43596>>, <<43632, 43632>>, <<43644, 43644>>,
      <<43696, 43696>>, <<43698, 43700>>, <<43703, 43704>>, <<43710,
      43711>>, <<43713, 43713>>, <<43741, 43741>>, <<43756, 43757>>,
      <<43763, 43764>>, <<43766, 43766>>, <<43867, 43871>>, <<43881,
      43883>>, <<44005, 44005>>, <<44008, 44008>>, <<44013, 44013>>,
      <<64286, 64286>>, <<64434, 64450>>, <<65024, 65039>>, <<65043,
      65043>>, <<65056, 65071>>, <<65106, 65106>>, <<65109, 65109>>,
      <<65279, 65279>>, <<65287, 65287>>, <<65294, 65294>>, <<65306,
      65306>>, <<65342, 65342>>, <<65344, 65344>>, <<65392, 65392>>,
      <<65438, 65439>>, <<65507, 65507>>, <<65529, 65531>>, <<66045,
      66045>>, <<66272, 66272>>, <<66422, 66426>>, <<67456, 67461>>,
      <<67463, 67504>>, <<67506, 67514>>, <<68097, 68099>>, <<68101,
      68102>>, <<68108, 68111>>, <<68152, 68154>>, <<68159, 68159>>,
      <<68325, 68326>>, <<68900, 68903>>, <<69291, 69292>>, <<69446,
      69456>>, <<69506, 69509>>, <<69633, 69633>>, <<69688, 69702>>,
      <<69744, 69744>>, <<69747, 69748>>, <<69759, 69761>>, <<69811,
      69814>>, <<69817, 69818>>, <<69821, 69821>>, <<69826, 69826>>,
      <<69837, 69837>>, <<69888, 69890>>, <<69927, 69931>>, <<69933,
      69940>>, <<70003, 70003>>, <<70016, 70017>>, <<70070, 70078>>,
      <<70089, 70092>>, <<70095, 70095>>, <<70191, 70193>>, <<70196,
      70196>>, <<70198, 70199>>, <<70206, 70206>>, <<70367, 70367>>,
      <<70371, 70378>>, <<70400, 70401>>, <<70459, 70460>>, <<70464,
      70464>>, <<70502, 70508>>, <<70512, 70516>>, <<70712, 70719>>,
      <<70722, 70724>>, <<70726, 70726>>, <<70750, 70750>>, <<70835,
      70840>>, <<70842, 70842>>, <<70847, 70848>>, <<70850, 70851>>,
      <<71090, 71093>>, <<71100, 71101>>, <<71103, 71104>>, <<71132,
      71133>>, <<71219, 71226>>, <<71229, 71229>>, <<71231, 71232>>,
      <<71339, 71339>>, <<71341, 71341>>, <<71344, 71349>>, <<71351,
      71351>>, <<71453, 71455>>, <<71458, 71461>>, <<71463, 71467>>,
      <<71727, 71735>>, <<71737, 71738>>, <<71995, 71996>>, <<71998,
      71998>>, <<72003, 72003>>, <<72148, 72151>>, <<72154, 72155>>,
      <<72160, 72160>>, <<72193, 72202>>, <<72243, 72248>>, <<72251,
      72254>>, <<72263, 72263>>, <<72273, 72278>>, <<72281, 72283>>,
      <<72330, 72342>>, <<72344, 72345>>, <<72752, 72758>>, <<72760,
      72765>>, <<72767, 72767>>, <<72850, 72871>>, <<72874, 72880>>,
      <<72882, 72883>>, <<72885, 72886>>, <<73009, 73014>>, <<73018,
      73018>>, <<73020, 73021>>, <<73023, 73029>>, <<73031, 73031>>,
      <<73104, 73105>>, <<73109, 73109>>, <<73111, 73111>>, <<73459,
      73460>>, <<78896, 78904>>, <<92912, 92916>>, <<92976, 92982>>,
      <<92992, 92995>>, <<94031, 94031>>, <<94095, 94111>>, <<94176,
      94177>>, <<94179, 94180>>, <<110576, 110579>>, <<110581, 110587>>,
      <<110589, 110590>>, <<113821, 113822>>, <<113824, 113827>>, <<118528,
      118573>>, <<118576, 118598>>, <<119143, 119145>>, <<119155, 119170>>,
      <<119173, 119179>>, <<119210, 119213>>, <<119362, 119364>>, <<121344,
      121398>>, <<121403, 121452>>, <<121461, 121461>>, <<121476, 121476>>,
      <<121499, 121503>>, <<121505, 121519>>, <<122880, 122886>>, <<122888,
      122904>>, <<122907, 122913>>, <<122915, 122916>>, <<122918, 122922>>,
      <<123184, 123197>>, <<123566, 123566>>, <<123628, 123631>>, <<125136,
      125142>>, <<125252, 125259>>, <<127995, 127999>>, <<917505, 917505>>,
      <<917536, 917631>>, <<917760, 917999>>>>

InRuns(c, table) == \E k \in 1..Len(table) : table[k][1] <= c /\ c <= table[k][2]

\* str.lower() of a code point that is neither U+0130 nor U+03A3
LowerChar(c) ==
    IF c < 128 THEN (IF c \in 65..90 THEN c + 32 ELSE c)
    ELSE LET hits == {k \in 1..Len(LOWER_RANGES) :
                        /\ LOWER_RANGES[k][1] <= c /\ c <= LOWER_RANGES[k][2]
                        /\ (c - LOWER_RANGES[k][1]) % LOWER_RANGES[k][3] = 0}
         IN  IF hits = {} THEN c ELSE c + LOWER_RANGES[CHOOSE k \in hits : TRUE][4]

RECURSIVE SkipIgnorable(_, _, _)
\* from index i in direction dir, the first index whose code point is not
\* case-ignorable (0 or Len(s) + 1 when there is none)
SkipIgnorable(s, i, dir) ==
    IF i < 1 \/ i > Len(s) \/ ~InRuns(s[i], CASE_IGNORABLE_RUNS) THEN i
    ELSE SkipIgnorable(s, i + dir, dir)

\* whether the capital sigma at index i ends a word: a cased code point
\* before it and none after it, case-ignorable code points skipped
FinalSigma(s, i) ==
    LET before == SkipIgnorable(s, i - 1, -1)
        after == SkipIgnorable(s, i + 1, 1)
    IN  /\ before >= 1 /\ InRuns(s[before], CASED_RUNS)
        /\ (after > Len(s) \/ ~InRuns(s[after], CASED_RUNS))

\* the code points str.lower() puts for the one at index i
LowerAt(s, i) ==
    IF s[i] = 304 THEN <<105, 775>>
    ELSE IF s[i] = 931 THEN (IF FinalSigma(s, i) THEN <<962>> ELSE <<963>>)
    ELSE <<LowerChar(s[i])>>

\* str.lower()
Lower(s) == JoinWith(<<>>, [i \in 1..Len(s) |-> LowerAt(s, i)])

\* p in s
Contains(s, p) ==
    \E i \in 1..(Len(s) - Len(p) + 1) : SubSeq(s, i, i + Len(p) - 1) = p

_enhance_short_bullet(bullet) ==
    LET bullet_lower == Lower(bullet)
        hits == {k \in 1..Len(enhancements) :
                    Contains(bullet_lower, enhancements[k][1])
                    /\ Len(bullet) < enhance_limit}
    IN  IF hits = {} THEN bullet
        ELSE enhancements[CHOOSE k \in hits : \A j \in hits : k <= j][2]

(***************************************************************************)
(* _convert_to_detailed_bullets (lines 225-263).                           *)
(***************************************************************************)
sentence_min == 15      \* line 241
enhance_below == 60     \* line 249
min_bullets == 4        \* line 254
max_bullets == 6        \* lines 256-257

\* the least index i >= from with s[i] = c, or 0 when there is none
IndexOf(s, c, from) ==
    LET idx == {i \in from..Len(s) : s[i] = c}
    IN  IF idx = {} THEN 0 ELSE CHOOSE i \in idx : \A j \in idx : i <= j

RECURSIVE Replace1(_, _, _)
\* s.replace(c, r) for a one-character string c
Replace1(s, c, r) ==
    LET i == IndexOf(s, c, 1)
    IN  IF i = 0 THEN s
        ELSE SubSeq(s, 1, i - 1) \o r \o Replace1(Drop(s, i), c, r)

RECURSIVE Split1(_, _)
\* s.split(c) for a one-character string c
Split1(s, c) ==
    LET i == IndexOf(s, c, 1)
    IN  IF i = 0 THEN <<s>>
        ELSE <<SubSeq(s, 1, i - 1)>> \o Split1(Drop(s, i), c)

RECURSIVE RStripCharsLen(_, _, _)
RStripCharsLen(s, cs, n) ==
    IF n = 0 \/ s[n] \notin cs THEN n ELSE RStripCharsLen(s, cs, n - 1)

\* s.rstrip(chars)
RStripChars(s, cs) == SubSeq(s, 1, RStripCharsLen(s, cs, Len(s)))

RECURSIVE tag_run(_, _, _, _)
\* whether s[i..e] is matched by (?:#w+s*)+ continued from automaton state q:
\* 0 before "#", 1 after "#", 2 inside w+, 3 inside s*
tag_run(s, i, e, q) ==
    IF i > e THEN q \in {2, 3}
    ELSE LET c == s[i]
             q2 == CASE q = 0 /\ c = 35 -> 1
                      [] q = 1 /\ c = 119 -> 2
                      [] q = 2 /\ c = 119 -> 2
                      [] q \in {2, 3} /\ c = 115 -> 3
                      [] q \in {2, 3} /\ c = 35 -> 1
                      [] OTHER -> 4
         IN  q2 # 4 /\ tag_run(s, i + 1, e, q2)

\* re.sub(r"(?:#w+s*)+$", "", content) (line 229): the pattern is a run of
\* "#", one or more "w", any number of "s", repeated, that ends where $
\* matches (the end, or just before a final line feed); the leftmost start wins
sub_trailing_tags(content) ==
    LET n == Len(content)
        e == IF n > 0 /\ content[n] = 10 THEN n - 1 ELSE n
        starts == {i \in 1..e : content[i] = 35 /\ tag_run(content, i, e, 0)}
    IN  IF starts = {} THEN content
        ELSE LET i == CHOOSE i \in starts : \A j \in starts : i <= j
             IN  SubSeq(content, 1, i - 1) \o SubSeq(content, e + 1, n)

\* lines 232-237
raw_sentences(content) ==
    LET temp == Replace1(Replace1(Replace1(content, 46, <<46, 124>>),
                                  33, <<33, 124>>), 63, <<63, 124>>)
        parts == Split1(temp, 124)
        stripped == [i \in 1..Len(parts) |-> Strip(parts[i])]
    IN  SelectSeq(stripped, LAMBDA s : Len(s) > 0)

\* lines 244-251, before the count is adjusted
candidate_bullets(content) ==
    LET sentences == SelectSeq(raw_sentences(content),
                               LAMBDA s : Len(s) > sentence_min)
        trimmed == [i \in 1..Len(sentences) |->
                       Strip(RStripChars(sentences[i], {46, 33, 63}))]
        kept == SelectSeq(trimmed, LAMBDA s : Len(s) > 0)
    IN  [i \in 1..Len(kept) |->
            BULLET_GLYPH \o (IF Len(kept[i]) < enhance_below
                             THEN _enhance_short_bullet(kept[i])
                             ELSE kept[i])]

_convert_to_detailed_bullets(content) ==
    LET bullets == candidate_bullets(Strip(sub_trailing_tags(content)))
    IN  IF Len(bullets) < min_bullets THEN _generate_comprehensive_bullets
        ELSE IF Len(bullets) > max_bullets THEN Take(bullets, max_bullets)
        ELSE bullets

(***************************************************************************)
(* _format_content_refined (lines 151-223).                                *)
(***************************************************************************)
\* "• Comprehensive market analysis in progress" (line 219)
PLACEHOLDER_BULLET ==
    <<8226, 32, 67, 111, 109, 112, 114, 101, 104, 101, 110, 115, 105, 118, 101,
      32, 109, 97, 114, 107, 101, 116, 32, 97, 110, 97, 108, 121, 115, 105, 115,
      32, 105, 110, 32, 112, 114, 111, 103, 114, 101, 115, 115>>
\* "**(.*?)**" (line 159)
BOLD_PATTERN ==
    <<42, 42, 40, 46, 42, 63, 41, 42, 42>>
\* "*(.*?)*" (line 160)
ITALIC_PATTERN ==
    <<42, 40, 46, 42, 63, 41, 42>>
JOIN_SEP == <<>>        \* the "" of "".join(...) at lines 194, 202 and 206
SPLIT_SEP == <<>>       \* the "" of clean_content.split("") at line 166
title_limit == 120      \* line 174

\* re compiles the pattern first: a pattern that opens with a repeat operator
\* ("*", "+", "?") has nothing to repeat, and re.sub raises re.error
nothing_to_repeat(pattern) == Len(pattern) > 0 /\ pattern[1] \in {42, 43, 63}

RECURSIVE LStripBlankLen(_, _)
LStripBlankLen(s, i) ==
    IF i > Len(s) \/ s[i] \notin {32, 9} THEN i - 1 ELSE LStripBlankLen(s, i + 1)

\* the length of the run of spaces and tabs that s opens with
LStripBlank(s) == LStripBlankLen(s, 1)

RECURSIVE collapse_blanks(_)
\* re.sub(r"[ \t]+", " ", s) (line 162)
collapse_blanks(s) ==
    LET blank == {i \in 1..Len(s) : s[i] \in {32, 9}}
    IN  IF blank = {} THEN s
        ELSE LET i == CHOOSE i \in blank : \A j \in blank : i <= j
                 rest == Drop(s, i)
                 k == LStripBlank(rest)
             IN  SubSeq(s, 1, i - 1) \o <<32>> \o collapse_blanks(Drop(rest, k))

\* lines 157-163: the cleaned text, or the exception of the first statement
\* that raises
clean(content) ==
    LET no_d_plus == SelectSeq(content, LAMBDA c : c \notin {100, 43})
    IN  IF nothing_to_repeat(BOLD_PATTERN) THEN Raised
        ELSE IF nothing_to_repeat(ITALIC_PATTERN) THEN Raised
        ELSE Value(Strip(SelectSeq(collapse_blanks(no_d_plus),
                                   LAMBDA c : c # 115)))

\* lines 166-183: title and body_content, or the exception of split
title_and_body(clean_content) ==
    IF Len(SPLIT_SEP) = 0 THEN Raised
    ELSE LET lines == Split1(clean_content, SPLIT_SEP[1])
             first_line == Strip(lines[1])
             rest == Strip(JoinWith(LF, Tail(lines)))
         IN  IF /\ Len(first_line) > 0
                /\ Len(first_line) < title_limit
                /\ ~StartsWith(first_line, <<8226>>)
                /\ ~StartsWith(first_line, <<45>>)
             THEN Value([title |-> first_line,
                         body_content |-> IF Len(rest) > 0 THEN rest
                                          ELSE clean_content])
             ELSE Value([title |-> DEFAULT_TITLE,
                         body_content |-> clean_content])

\* lines 185-188
formatted_header(title, date) ==
    <<TITLE_OPEN \o title \o TITLE_CLOSE, DATE_OPEN \o date \o DATE_CLOSE, <<>>>>

\* lines 193-194 and 205-206: result_lines joined
assemble(header, bullets) ==
    JoinWith(JOIN_SEP, header \o bullets \o <<<<>>, hashtags_line>>)

\* the budget with the length of the header left out
available_without_header(header) ==
    max_len - (1 + Len(hashtags_line) + 2)

\* lines 201-202
available_for_bullets(header) ==
    max_len - (Len(JoinWith(JOIN_SEP, header)) + 1 + Len(hashtags_line) + 2)

\* lines 198-204: the bullets of the final result_lines
limit_bullets(header, bullet_content) ==
    IF Len(assemble(header, bullet_content)) > max_len
    THEN _truncate_bullets_refined(bullet_content,
                                   Max(0, available_for_bullets(header)))
    ELSE bullet_content

\* lines 209-210
final_clamp(text) ==
    IF Len(text) > max_len THEN Take(text, max_len - 1) \o ELLIPSIS ELSE text

\* lines 192-212: from the header and the bullets to the returned text
enforce_length(header, bullet_content) ==
    final_clamp(assemble(header, limit_bullets(header, bullet_content)))

\* the except branch without lines 221-222
format_except_unclamped(date) ==
    TITLE_OPEN \o DEFAULT_TITLE \o TITLE_CLOSE \o DATE_OPEN \o date \o DATE_CLOSE
    \o PLACEHOLDER_BULLET \o hashtags_line

\* lines 216-223: the except branch
format_except(date) ==
    LET fallback == TITLE_OPEN \o DEFAULT_TITLE \o TITLE_CLOSE
                    \o DATE_OPEN \o date \o DATE_CLOSE
                    \o PLACEHOLDER_BULLET \o hashtags_line
    IN  IF Len(fallback) > 800 THEN Take(fallback, 799) \o ELLIPSIS
        ELSE fallback

_format_content_refined(content, date) ==
    LET cleaned == clean(content)
        parts == IF cleaned.exc THEN Raised ELSE title_and_body(cleaned.val)
    IN  IF parts.exc THEN format_except(date)
        ELSE enforce_length(
                 formatted_header(parts.val.title, date),
                 _convert_to_detailed_bullets(parts.val.body_content))

(***************************************************************************)
(* _create_refined_fallback_content (lines 378-408): its text.             *)
(***************************************************************************)
\* "• Bitcoin trading activity continues with notable institutional transactions reported" (line 381)
FALLBACK_1 ==
    <<8226, 32, 66, 105, 116, 99, 111, 105, 110, 32, 116, 114, 97, 100, 105,
      110, 103, 32, 97, 99, 116, 105, 118, 105, 116, 121, 32, 99, 111, 110, 116,
      105, 110, 117, 101, 115, 32, 119, 105, 116, 104, 32, 110, 111, 116, 97,
      98, 108, 101, 32, 105, 110, 115, 116, 105, 116, 117, 116, 105, 111, 110,
      97, 108, 32, 116, 114, 97, 110, 115, 97, 99, 116, 105, 111, 110, 115, 32,
      114, 101, 112, 111, 114, 116, 101, 100>>
\* "• Ethereum network updates and Layer 2 scaling solutions see increased adoption" (line 382)
FALLBACK_2 ==
    <<8226, 32, 69, 116, 104, 101, 114, 101, 117, 109, 32, 110, 101, 116, 119,
      111, 114, 107, 32, 117, 112, 100, 97, 116, 101, 115, 32, 97, 110, 100, 32,
      76, 97, 121, 101, 114, 32, 50, 32, 115, 99, 97, 108, 105, 110, 103, 32,
      115, 111, 108, 117, 116, 105, 111, 110, 115, 32, 115, 101, 101, 32, 105,
      110, 99, 114, 101, 97, 115, 101, 100, 32, 97, 100, 111, 112, 116, 105,
      111, 110>>
\* "• Major altcoins display varied performance across different market segments" (line 383)
FALLBACK_3 ==
    <<8226, 32, 77, 97, 106, 111, 114, 32, 97, 108, 116, 99, 111, 105, 110, 115,
      32, 100, 105, 115, 112, 108, 97, 121, 32, 118, 97, 114, 105, 101, 100, 32,
      112, 101, 114, 102, 111, 114, 109, 97, 110, 99, 101, 32, 97, 99, 114, 111,
      115, 115, 32, 100, 105, 102, 102, 101, 114, 101, 110, 116, 32, 109, 97,
      114, 107, 101, 116, 32, 115, 101, 103, 109, 101, 110, 116, 115>>
\* "• Global economic indicators and central bank policies influence crypto market sentiment" (line 384)
FALLBACK_4 ==
    <<8226, 32, 71, 108, 111, 98, 97, 108, 32, 101, 99, 111, 110, 111, 109, 105,
      99, 32, 105, 110, 100, 105, 99, 97, 116, 111, 114, 115, 32, 97, 110, 100,
      32, 99, 101, 110, 116, 114, 97, 108, 32, 98, 97, 110, 107, 32, 112, 111,
      108, 105, 99, 105, 101, 115, 32, 105, 110, 102, 108, 117, 101, 110, 99,
      101, 32, 99, 114, 121, 112, 116, 111, 32, 109, 97, 114, 107, 101, 116, 32,
      115, 101, 110, 116, 105, 109, 101, 110, 116>>
\* "• Regulatory developments in key jurisdictions impact trading volumes and market access" (line 385)
FALLBACK_5 ==
    <<8226, 32, 82, 101, 103, 117, 108, 97, 116, 111, 114, 121, 32, 100, 101,
      118, 101, 108, 111, 112, 109, 101, 110, 116, 115, 32, 105, 110, 32, 107,
      101, 121, 32, 106, 117, 114, 105, 115, 100, 105, 99, 116, 105, 111, 110,
      115, 32, 105, 109, 112, 97, 99, 116, 32, 116, 114, 97, 100, 105, 110, 103,
      32, 118, 111, 108, 117, 109, 101, 115, 32, 97, 110, 100, 32, 109, 97, 114,
      107, 101, 116, 32, 97, 99, 99, 101, 115, 115>>
\* "• Upcoming industry events and protocol upgrades scheduled for near-term implementation" (line 386)
FALLBACK_6 ==
    <<8226, 32, 85, 112, 99, 111, 109, 105, 110, 103, 32, 105, 110, 100, 117,
      115, 116, 114, 121, 32, 101, 118, 101, 110, 116, 115, 32, 97, 110, 100,
      32, 112, 114, 111, 116, 111, 99, 111, 108, 32, 117, 112, 103, 114, 97,
      100, 101, 115, 32, 115, 99, 104, 101, 100, 117, 108, 101, 100, 32, 102,
      111, 114, 32, 110, 101, 97, 114, 45, 116, 101, 114, 109, 32, 105, 109,
      112, 108, 101, 109, 101, 110, 116, 97, 116, 105, 111, 110>>
fallback_bullets ==
    <<FALLBACK_1, FALLBACK_2, FALLBACK_3, FALLBACK_4, FALLBACK_5, FALLBACK_6>>

\* lines 389-402
fallback_text(date) ==
    LET text == TITLE_OPEN \o DEFAULT_TITLE \o TITLE_CLOSE \o LF
                \o DATE_OPEN \o date \o DATE_CLOSE \o LF \o LF
                \o JoinWith(LF, fallback_bullets) \o LF \o LF
                \o hashtags_line
    IN  IF Len(text) > 800 THEN Take(text, 799) \o ELLIPSIS ELSE text

(***************************************************************************)
(* The value of response.json(): a string, a mapping, a sequence or        *)
(* another scalar.  Every value is a record of one shape: t is the type,   *)
(* s the code points of a string, items the entries of a mapping (k the    *)
(* key, v the value, in insertion order) or of a sequence (k is "").       *)
(***************************************************************************)
JStr(s) == [t |-> "str", s |-> s, items |-> <<>>]
JNum == [t |-> "num", s |-> <<>>, items |-> <<>>]
JList(vs) == [t |-> "list", s |-> <<>>,
              items |-> [i \in 1..Len(vs) |-> [k |-> "", v |-> vs[i]]]]
JDict(kvs) == [t |-> "dict", s |-> <<>>,
               items |-> [i \in 1..Len(kvs) |-> [k |-> kvs[i][1], v |-> kvs[i][2]]]]

\* key in obj, for a mapping obj
HasKey(obj, key) == \E i \in 1..Len(obj.items) : obj.items[i].k = key

\* obj[key]
Get(obj, key) == obj.items[CHOOSE i \in 1..Len(obj.items) : obj.items[i].k = key].v

(***************************************************************************)
(* _extract_content_simple (lines 100-149).  A value that is a str or None *)
(* is a record: none tells None, s is the string.                          *)
(***************************************************************************)
None == [none |-> TRUE, s |-> <<>>]
Str(s) == [none |-> FALSE, s |-> s]

\* the truth value Python gives a str or None
Truthy(r) == ~r.none /\ Len(r.s) > 0

bare_string_min == 50   \* line 123

RECURSIVE find_content(_)
RECURSIVE find_in_items(_, _)

\* lines 129-132 and 134-137: the first truthy result among the values
find_in_items(items, i) ==
    IF i > Len(items) THEN None
    ELSE LET found == find_content(items[i].v)
         IN  IF Truthy(found) THEN found ELSE find_in_items(items, i + 1)

\* lines 122-138
find_content(obj) ==
    IF obj.t = "str" /\ Len(obj.s) > bare_string_min THEN Str(obj.s)
    ELSE IF obj.t = "dict"
    THEN IF HasKey(obj, "content") /\ Get(obj, "content").t = "str"
         THEN Str(Get(obj, "content").s)
         ELSE find_in_items(obj.items, 1)
    ELSE IF obj.t = "list" THEN find_in_items(obj.items, 1)
    ELSE None

\* lines 105-119: the content of choices[0].message.content when the
\* envelope has that shape and the content is not blank, else None
standard_content(data) ==
    IF data.t = "dict" /\ HasKey(data, "choices")
    THEN LET choices == Get(data, "choices")
         IN  IF choices.t = "list" /\ Len(choices.items) > 0
             THEN LET first == choices.items[1].v
                  IN  IF /\ first.t = "dict"
                         /\ HasKey(first, "message")
                         /\ Get(first, "message").t = "dict"
                         /\ HasKey(Get(first, "message"), "content")
                         /\ Get(Get(first, "message"), "content").t = "str"
                         /\ Len(Strip(Get(Get(first, "message"), "content").s)) > 0
                      THEN Str(Strip(Get(Get(first, "message"), "content").s))
                      ELSE None
             ELSE None
    ELSE None

\* the function with line 143 returning the content as found
extract_unstripped(data) ==
    LET standard == standard_content(data)
        content == find_content(data)
    IN  IF ~standard.none THEN standard.s
        ELSE IF Truthy(content) THEN content.s
        ELSE <<>>

_extract_content_simple(data) ==
    LET standard == standard_content(data)
        content == find_content(data)
    IN  IF ~standard.none THEN standard.s
        ELSE IF Truthy(content) THEN Strip(content.s)
        ELSE <<>>

(***************************************************************************)
(* hashlib.md5(content.encode()).hexdigest()[:8] (line 347).  A 32-bit     *)
(* word is a pair <<hi, lo>> of 16-bit halves, so that no intermediate     *)
(* value leaves the range of signed 32-bit integers; MD5 is RFC 1321.     *)
(***************************************************************************)
\* bitwise and, or, xor of two 4-bit values
Bit(a, k) == (a \div (2 ^ k)) % 2
AndNib == [a \in 0..15, b \in 0..15 |->
              Bit(a, 0) * Bit(b, 0) + 2 * (Bit(a, 1) * Bit(b, 1))
              + 4 * (Bit(a, 2) * Bit(b, 2)) + 8 * (Bit(a, 3) * Bit(b, 3))]
OrNib == [a \in 0..15, b \in 0..15 |-> a + b - AndNib[a, b]]
XorNib == [a \in 0..15, b \in 0..15 |-> a + b - 2 * AndNib[a, b]]

\* a nibble table applied to two 16-bit values
Nibbles16(tab, a, b) ==
    tab[a % 16, b % 16]
    + 16 * tab[(a \div 16) % 16, (b \div 16) % 16]
    + 256 * tab[(a \div 256) % 16, (b \div 256) % 16]
    + 4096 * tab[a \div 4096, b \div 4096]

And32(x, y) == <<Nibbles16(AndNib, x[1], y[1]), Nibbles16(AndNib, x[2], y[2])>>
Or32(x, y) == <<Nibbles16(OrNib, x[1], y[1]), Nibbles16(OrNib, x[2], y[2])>>
Xor32(x, y) == <<Nibbles16(XorNib, x[1], y[1]), Nibbles16(XorNib, x[2], y[2])>>
Not32(x) == <<65535 - x[1], 65535 - x[2]>>

\* addition modulo 2^32
Add32(x, y) ==
    LET lo == x[2] + y[2]
    IN  <<(x[1] + y[1] + (lo \div 65536)) % 65536, lo % 65536>>

\* rotation to the left by n bits, 0 < n < 32
RotL32(x, n) ==
    LET w == IF n >= 16 THEN <<x[2], x[1]>> ELSE x
        k == n % 16
    IN  IF k = 0 THEN w
        ELSE <<((w[1] * (2 ^ k)) % 65536) + (w[2] \div (2 ^ (16 - k))),
               ((w[2] * (2 ^ k)) % 65536) + (w[1] \div (2 ^ (16 - k)))>>

\* floor(2^32 * abs(sin(i))) for i = 1..64
MD5_K ==
    <<<<55146, 42104>>, <<59591, 46934>>, <<9248, 28891>>, <<49597, 52974>>,
      <<62844, 4015>>, <<18311, 50730>>, <<43056, 17939>>, <<64838, 38145>>,
      <<27008, 39128>>, <<35652, 63407>>, <<65535, 23473>>, <<35164, 55230>>,
      <<27536, 4386>>, <<64920, 29075>>, <<42617, 17294>>, <<18868, 2081>>,
      <<63006, 9570>>, <<49216, 45888>>, <<9822, 23121>>, <<59830, 51114>>,
      <<54831, 4189>>, <<580, 5203>>, <<55457, 59009>>, <<59347, 64456>>,
      <<8673, 52710>>, <<49975, 2006>>, <<62677, 3463>>, <<17754, 5357>>,
      <<43491, 59653>>, <<64751, 41976>>, <<26479, 729>>, <<36138, 19594>>,
      <<65530, 14658>>, <<34673, 63105>>, <<28061, 24866>>, <<64997, 14348>>,
      <<42174, 59972>>, <<19422, 53161>>, <<63163, 19296>>, <<48831, 48240>>,
      <<10395, 32454>>, <<60065, 10234>>, <<54511, 12421>>, <<1160, 7429>>,
      <<55764, 53305>>, <<59099, 39397>>, <<8098, 31992>>, <<50348, 22117>>,
      <<62505, 8772>>, <<17194, 65431>>, <<43924, 9127>>, <<64659, 41017>>,
      <<25947, 22979>>, <<36620, 52370>>, <<65519, 62589>>, <<34180, 24017>>,
      <<28584, 32335>>, <<65068, 59104>>, <<41729, 17172>>, <<19976, 4513>>,
      <<63315, 32386>>, <<48442, 62005>>, <<10967, 53947>>, <<60294, 54161>>>>

\* the per-round shift amounts
MD5_S ==
    <<7, 12, 17, 22, 7, 12, 17, 22, 7, 12, 17, 22, 7, 12, 17, 22, 5, 9, 14,
      20, 5, 9, 14, 20, 5, 9, 14, 20, 5, 9, 14, 20, 4, 11, 16, 23, 4, 11, 16,
      23, 4, 11, 16, 23, 4, 11, 16, 23, 6, 10, 15, 21, 6, 10, 15, 21, 6, 10,
      15, 21, 6, 10, 15, 21>>

\* the initial state A, B, C, D
MD5_INIT == <<<<26437, 8961>>, <<61389, 43913>>, <<39098, 56574>>, <<4146, 21622>>>>

\* one code point as UTF-8 bytes; a surrogate cannot be encoded
Utf8(c) ==
    IF c < 128 THEN <<c>>
    ELSE IF c < 2048 THEN <<192 + (c \div 64), 128 + (c % 64)>>
    ELSE IF c < 65536
    THEN <<224 + (c \div 4096), 128 + ((c \div 64) % 64), 128 + (c % 64)>>
    ELSE <<240 + (c \div 262144), 128 + ((c \div 4096) % 64),
           128 + ((c \div 64) % 64), 128 + (c % 64)>>

IsSurrogate(c) == c \in 55296..57343

RECURSIVE EncodeRange(_, _, _)
EncodeRange(s, lo, hi) ==
    IF lo > hi THEN <<>>
    ELSE IF lo = hi THEN Utf8(s[lo])
    ELSE LET mid == (lo + hi) \div 2
         IN  EncodeRange(s, lo, mid) \o EncodeRange(s, mid + 1, hi)

\* content.encode(): the bytes, or UnicodeEncodeError
encode(content) ==
    IF \E i \in 1..Len(content) : IsSurrogate(content[i]) THEN Raised
    ELSE Value(EncodeRange(content, 1, Len(content)))

\* the message padded to a multiple of 64 bytes: 0x80, zeros, and the bit
\* length as 8 little-endian bytes
Md5Padded(bytes) ==
    LET n == Len(bytes)
        zeros == (119 - (n % 64)) % 64
        bits == n * 8
    IN  bytes \o <<128>> \o Rep(0, zeros)
        \o <<bits % 256, (bits \div 256) % 256, (bits \div 65536) % 256,
             (bits \div 16777216) % 256, 0, 0, 0, 0>>

\* the little-endian 32-bit word g (0..15) of the block that starts after
\* byte index base
Md5Word(m, base, g) ==
    LET p == base + 4 * g
    IN  <<m[p + 3] + 256 * m[p + 4], m[p + 1] + 256 * m[p + 2]>>

\* round i (0..63) of one block on the state st = <<A, B, C, D>>
Md5Round(m, base, i, st) ==
    LET A == st[1]
        B == st[2]
        C == st[3]
        D == st[4]
        F == IF i < 16 THEN Or32(And32(B, C), And32(Not32(B), D))
             ELSE IF i < 32 THEN Or32(And32(D, B), And32(Not32(D), C))
             ELSE IF i < 48 THEN Xor32(Xor32(B, C), D)
             ELSE Xor32(C, Or32(B, Not32(D)))
        g == IF i < 16 THEN i
             ELSE IF i < 32 THEN (5 * i + 1) % 16
             ELSE IF i < 48 THEN (3 * i + 5) % 16
             ELSE (7 * i) % 16
        sum == Add32(Add32(Add32(A, F), MD5_K[i + 1]), Md5Word(m, base, g))
    IN  <<D, Add32(B, RotL32(sum, MD5_S[i + 1])), B, C>>

RECURSIVE Md5Rounds(_, _, _, _, _)
\* rounds i..j of one block, in order (the guard on Len has the first half
\* evaluated before the second starts)
Md5Rounds(m, base, i, j, st) ==
    IF i = j THEN Md5Round(m, base, i, st)
    ELSE LET mid == (i + j) \div 2
             half == Md5Rounds(m, base, i, mid, st)
         IN  IF Len(half) = 4 THEN Md5Rounds(m, base, mid + 1, j, half)
             ELSE half

RECURSIVE Md5Blocks(_, _, _)
\* the blocks of m from byte index base on, folded into the state st
Md5Blocks(m, base, st) ==
    IF base >= Len(m) THEN st
    ELSE LET r == Md5Rounds(m, base, 0, 63, st)
             sum == <<Add32(st[1], r[1]), Add32(st[2], r[2]),
                      Add32(st[3], r[3]), Add32(st[4], r[4])>>
         IN  IF Len(sum) = 4 THEN Md5Blocks(m, base + 64, sum) ELSE sum

\* the first four bytes of the digest: the word A, low byte first
Md5Head(bytes) ==
    LET m == Md5Padded(bytes)
        A == IF Len(m) % 64 = 0 THEN Md5Blocks(m, 0, MD5_INIT)[1] ELSE <<0, 0>>
    IN  <<A[2] % 256, A[2] \div 256, A[1] % 256, A[1] \div 256>>

HexDigit(n) == IF n < 10 THEN 48 + n ELSE 87 + n

\* hexdigest()[:8] of the digest that opens with the four bytes head
HexHead(head) ==
    <<HexDigit(head[1] \div 16), HexDigit(head[1] % 16),
      HexDigit(head[2] \div 16), HexDigit(head[2] % 16),
      HexDigit(head[3] \div 16), HexDigit(head[3] % 16),
      HexDigit(head[4] \div 16), HexDigit(head[4] % 16)>>

\* int(content_hash, 16) % n: the eight hex digits are the four bytes of
\* head, the first the most significant; reduced half by half
HashMod(head, n) ==
    (((head[1] * 256 + head[2]) % n) * (65536 % n) + (head[3] * 256 + head[4])) % n

(***************************************************************************)
(* _generate_unique_crypto_image (lines 344-376).  The answer of           *)
(* requests.head is an input: exc tells that the call raised, status_code  *)
(* is the status of the response otherwise.                                *)
(***************************************************************************)
\* "https://source.unsplash.com/1200x800/?cryptocurrency,trading," (line 350)
URL_0_PREFIX ==
    <<104, 116, 116, 112, 115, 58, 47, 47, 115, 111, 117, 114, 99, 101, 46, 117,
      110, 115, 112, 108, 97, 115, 104, 46, 99, 111, 109, 47, 49, 50, 48, 48,
      120, 56, 48, 48, 47, 63, 99, 114, 121, 112, 116, 111, 99, 117, 114, 114,
      101, 110, 99, 121, 44, 116, 114, 97, 100, 105, 110, 103, 44>>
\* "https://source.unsplash.com/1200x800/?bitcoin,market,analysis" (line 351)
URL_1 ==
    <<104, 116, 116, 112, 115, 58, 47, 47, 115, 111, 117, 114, 99, 101, 46, 117,
      110, 115, 112, 108, 97, 115, 104, 46, 99, 111, 109, 47, 49, 50, 48, 48,
      120, 56, 48, 48, 47, 63, 98, 105, 116, 99, 111, 105, 110, 44, 109, 97,
      114, 107, 101, 116, 44, 97, 110, 97, 108, 121, 115, 105, 115>>
\* "https://source.unsplash.com/1200x800/?blockchain,finance,charts" (line 352)
URL_2 ==
    <<104, 116, 116, 112, 115, 58, 47, 47, 115, 111, 117, 114, 99, 101, 46, 117,
      110, 115, 112, 108, 97, 115, 104, 46, 99, 111, 109, 47, 49, 50, 48, 48,
      120, 56, 48, 48, 47, 63, 98, 108, 111, 99, 107, 99, 104, 97, 105, 110, 44,
      102, 105, 110, 97, 110, 99, 101, 44, 99, 104, 97, 114, 116, 115>>
\* "https://picsum.photos/1200/800?random=" (line 353)
URL_3_PREFIX ==
    <<104, 116, 116, 112, 115, 58, 47, 47, 112, 105, 99, 115, 117, 109, 46, 112,
      104, 111, 116, 111, 115, 47, 49, 50, 48, 48, 47, 56, 48, 48, 63, 114, 97,
      110, 100, 111, 109, 61>>
\* "https://images.unsplash.com/photo-1640340434855-6084b1f4901c?w=1200&h=800&fit=crop" (line 354)
URL_4 ==
    <<104, 116, 116, 112, 115, 58, 47, 47, 105, 109, 97, 103, 101, 115, 46, 117,
      110, 115, 112, 108, 97, 115, 104, 46, 99, 111, 109, 47, 112, 104, 111,
      116, 111, 45, 49, 54, 52, 48, 51, 52, 48, 52, 51, 52, 56, 53, 53, 45, 54,
      48, 56, 52, 98, 49, 102, 52, 57, 48, 49, 99, 63, 119, 61, 49, 50, 48, 48,
      38, 104, 61, 56, 48, 48, 38, 102, 105, 116, 61, 99, 114, 111, 112>>
\* "https://images.unsplash.com/photo-1559757175-0eb30cd8c063?w=1200&h=800&fit=crop" (line 355)
URL_5 ==
    <<104, 116, 116, 112, 115, 58, 47, 47, 105, 109, 97, 103, 101, 115, 46, 117,
      110, 115, 112, 108, 97, 115, 104, 46, 99, 111, 109, 47, 112, 104, 111,
      116, 111, 45, 49, 53, 53, 57, 55, 53, 55, 49, 55, 53, 45, 48, 101, 98, 51,
      48, 99, 100, 56, 99, 48, 54, 51, 63, 119, 61, 49, 50, 48, 48, 38, 104, 61,
      56, 48, 48, 38, 102, 105, 116, 61, 99, 114, 111, 112>>
\* "https://images.unsplash.com/photo-1616499370260-485b3e5ed653?w=1200&h=800&fit=crop" (line 356)
URL_6 ==
    <<104, 116, 116, 112, 115, 58, 47, 47, 105, 109, 97, 103, 101, 115, 46, 117,
      110, 115, 112, 108, 97, 115, 104, 46, 99, 111, 109, 47, 112, 104, 111,
      116, 111, 45, 49, 54, 49, 54, 52, 57, 57, 51, 55, 48, 50, 54, 48, 45, 52,
      56, 53, 98, 51, 101, 53, 101, 100, 54, 53, 51, 63, 119, 61, 49, 50, 48,
      48, 38, 104, 61, 56, 48, 48, 38, 102, 105, 116, 61, 99, 114, 111, 112>>
\* "https://images.unsplash.com/photo-1640340434855-6084b1f4901c?w=1200&h=800&fit=crop" (lines 372, 376)
FALLBACK_IMAGE ==
    <<104, 116, 116, 112, 115, 58, 47, 47, 105, 109, 97, 103, 101, 115, 46, 117,
      110, 115, 112, 108, 97, 115, 104, 46, 99, 111, 109, 47, 112, 104, 111,
      116, 111, 45, 49, 54, 52, 48, 51, 52, 48, 52, 51, 52, 56, 53, 53, 45, 54,
      48, 56, 52, 98, 49, 102, 52, 57, 48, 49, 99, 63, 119, 61, 49, 50, 48, 48,
      38, 104, 61, 56, 48, 48, 38, 102, 105, 116, 61, 99, 114, 111, 112>>

\* lines 349-357, for the eight hex digits content_hash
crypto_images(content_hash) ==
    <<URL_0_PREFIX \o content_hash, URL_1, URL_2, URL_3_PREFIX \o content_hash,
      URL_4, URL_5, URL_6>>

\* the selection with the index taken modulo one less than the pool's length
select_image_short_modulus(content) ==
    The({IF bytes.exc THEN Raised
         ELSE The({The({Value(images[HashMod(head, Len(images) - 1) + 1]) :
                           images \in {crypto_images(HexHead(head))}}) :
                      head \in {Md5Head(bytes.val)}}) :
            bytes \in {encode(content)}})

\* lines 347-360: selected_image, or the exception of encode
select_image(content) ==
    The({IF bytes.exc THEN Raised
         ELSE The({The({Value(images[HashMod(head, Len(images)) + 1]) :
                           images \in {crypto_images(HexHead(head))}}) :
                      head \in {Md5Head(bytes.val)}}) :
            bytes \in {encode(content)}})

\* lines 362-372: the URL returned once requests.head has answered
probe_result(selected, probe) ==
    IF ~probe.exc /\ probe.status_code = 200 THEN selected ELSE FALLBACK_IMAGE

(***************************************************************************)
(* get_crypto_news_content (lines 25-98).                                  *)
(***************************************************************************)
\* the month names of strftime("%B")
MONTH_NAMES ==
    <<<<74, 97, 110, 117, 97, 114, 121>>,
      <<70, 101, 98, 114, 117, 97, 114, 121>>,
      <<77, 97, 114, 99, 104>>,
      <<65, 112, 114, 105, 108>>,
      <<77, 97, 121>>,
      <<74, 117, 110, 101>>,
      <<74, 117, 108, 121>>,
      <<65, 117, 103, 117, 115, 116>>,
      <<83, 101, 112, 116, 101, 109, 98, 101, 114>>,
      <<79, 99, 116, 111, 98, 101, 114>>,
      <<78, 111, 118, 101, 109, 98, 101, 114>>,
      <<68, 101, 99, 101, 109, 98, 101, 114>>>>

RECURSIVE Digits(_, _)
\* n in decimal, zero-padded to width w
Digits(n, w) ==
    IF w = 0 THEN <<>> ELSE Digits(n \div 10, w - 1) \o <<48 + (n % 10)>>

\* day.strftime("%B %d, %Y") (lines 29, 97)
strftime(day) ==
    MONTH_NAMES[day.month] \o <<32>> \o Digits(day.day, 2) \o <<44, 32>>
    \o Digits(day.year, 4)

\* the record with char_count counting the bytes of the text's UTF-8
\* encoding instead of its code points
make_result_bytes(text, image_url) ==
    [text |-> text, image_url |-> image_url,
     char_count |-> Len(EncodeRange(text, 1, Len(text)))]

\* lines 86-90 and 404-408
make_result(text, image_url) ==
    [text |-> text, image_url |-> image_url, char_count |-> Len(text)]

(***************************************************************************)
(* The environment of one invocation: the days datetime.now() may fall on, *)
(* the answers of requests.post and of requests.head.                      *)
(***************************************************************************)
Days ==
    {[year |-> 2026, month |-> 5, day |-> 1],
     [year |-> 2026, month |-> 9, day |-> 30],
     [year |-> 2026, month |-> 10, day |-> 29],
     [year |-> 2027, month |-> 1, day |-> 5]}

StatusCodes == {200, 401, 500}

ProbeOutcomes ==
    {[exc |-> FALSE, status_code |-> 200],
     [exc |-> FALSE, status_code |-> 404],
     [exc |-> TRUE, status_code |-> 0]}

\* strings a response may carry
BLANK == <<32, 32>>
PADDED == <<32, 88, 32>>                    \* " X "
LONG51 == <<32>> \o Rep(97, 50)             \* 51 code points, the first a space
SHORT50 == Rep(98, 50)                      \* 50 code points
Leaves == {JStr(<<>>), JStr(BLANK), JStr(PADDED), JStr(LONG51), JStr(SHORT50), JNum}

\* the envelope {"choices": [{"message": {"content": v}}]}
Standard(v) ==
    JDict(<<<<"choices",
              JList(<<JDict(<<<<"message", JDict(<<<<"content", v>>>>)>>>>)>>)>>>>)

\* the bodies of a response: one that json() cannot parse, and envelopes
Bodies ==
    {[json_ok |-> FALSE, data |-> JNum]}
    \cup {[json_ok |-> TRUE, data |-> Standard(v)] : v \in Leaves}
    \cup {[json_ok |-> TRUE, data |-> d] :
             d \in {JDict(<<>>), JList(<<>>), JStr(LONG51),
                    JDict(<<<<"a", JDict(<<<<"content", JStr(PADDED)>>>>)>>>>)}}

NoResult == [text |-> <<>>, image_url |-> <<>>, char_count |-> 0]

\* requests.head has not answered
NoResponse == [exc |-> FALSE, status_code |-> 0]

InitProcessIdle ==
    /\ pc = "idle"
    /\ formatted_date = <<>>
    /\ formatted_content = <<>>
    /\ branch = "none"
    /\ selected_image = <<>>
    /\ result = NoResult
    /\ posts = 0
    /\ heads = 0
    /\ response = NoResponse
    /\ calls = 0

Init ==
    /\ InitProcessIdle
    /\ fn = "none"
    /\ arg = <<>>
    /\ ret = <<>>

\* lines 28-61: the caller invokes get_crypto_news_content; the date is
\* read, the request is built and requests.post is issued
Invoke ==
    /\ pc = "idle"
    /\ calls < MaxCalls
    /\ \E day \in Days : formatted_date' = strftime(day)
    /\ pc' = "post"
    /\ calls' = calls + 1
    /\ formatted_content' = <<>>
    /\ branch' = "none"
    /\ selected_image' = <<>>
    /\ result' = NoResult
    /\ posts' = 1
    /\ heads' = 0
    /\ response' = NoResponse
    /\ UNCHANGED <<fn, arg, ret>>

\* the text is fixed (line 81, or lines 389-402), and the call of
\* _generate_unique_crypto_image (line 84 or 406) issues requests.head
\* (line 364) and waits for its answer; when the hashing raises, the
\* fallback image is returned with no probe
FixText(text, why) ==
    /\ formatted_content' = text
    /\ branch' = why
    /\ \E selected \in {select_image(text)} :
           IF selected.exc
           THEN /\ pc' = "done"
                /\ selected_image' = <<>>
                /\ heads' = heads
                /\ result' = make_result(text, FALLBACK_IMAGE)
           ELSE /\ pc' = "head"
                /\ selected_image' = selected.val
                /\ heads' = heads + 1
                /\ result' = NoResult

\* line 61 raises: the except branch of lines 95-98 reads the date again
PostRaises ==
    /\ pc = "post"
    /\ \E day \in Days :
          \E text \in {fallback_text(strftime(day))} : FixText(text, "exception")
    /\ UNCHANGED <<formatted_date, posts, response, calls, fn, arg, ret>>

\* a client that repeats the request once after a status other than 200
PostReturns_retry ==
    /\ pc = "post"
    /\ \E status_code \in StatusCodes :
          IF status_code # 200 /\ posts = 1
          THEN /\ posts' = posts + 1
               /\ UNCHANGED <<pc, formatted_content, branch, selected_image,
                              heads, result>>
          ELSE /\ posts' = posts
               /\ \E text \in {fallback_text(formatted_date)} :
                     FixText(text, "status")
    /\ UNCHANGED <<formatted_date, response, calls, fn, arg, ret>>

\* line 61 returns a response: lines 63-84
PostReturns ==
    /\ pc = "post"
    /\ \E status_code \in StatusCodes, body \in Bodies :
          \E fallback \in {fallback_text(formatted_date)} :
             IF status_code # 200
             THEN FixText(fallback, "status")
             ELSE IF ~body.json_ok
             THEN FixText(fallback, "json")
             ELSE \E content \in {_extract_content_simple(body.data)} :
                     IF Len(content) = 0
                     THEN FixText(fallback, "empty")
                     ELSE \E text \in {_format_content_refined(content,
                                                                 formatted_date)} :
                             FixText(text, "format")
    /\ UNCHANGED <<formatted_date, posts, response, calls, fn, arg, ret>>

\* line 364 returns or raises: lines 365-372, then lines 86-93 or 404-408
HeadReturns ==
    /\ pc = "head"
    /\ \E probe \in ProbeOutcomes :
          /\ response' = probe
          /\ result' = make_result(formatted_content,
                                   probe_result(selected_image, probe))
    /\ pc' = "done"
    /\ UNCHANGED <<formatted_date, formatted_content, branch, selected_image,
                   posts, heads, calls, fn, arg, ret>>

\* the caller takes the record
Return ==
    /\ pc = "done"
    /\ pc' = "idle"
    /\ UNCHANGED <<formatted_date, formatted_content, branch, selected_image,
                   result, posts, heads, response, calls, fn, arg, ret>>

Next == Invoke \/ PostRaises \/ PostReturns \/ HeadReturns \/ Return

Spec == Init /\ [][Next]_vars

\* the branches on which the request failed
FailedBranches == {"exception", "status", "json", "empty"}

\* the opening of the fallback text: "📈 **Crypto Market Update**"
FALLBACK_OPENING == TITLE_OPEN \o DEFAULT_TITLE \o TITLE_CLOSE

\* C2: every invocation ends with a record {text, image_url, char_count}
\* whose char_count is the length of its text; when the request failed the
\* text is the fallback text of a date, it opens with
\* "📈 **Crypto Market Update**" and has at most 800 code points
C2_AlwaysARecord ==
    /\ pc \in {"idle", "post", "head", "done"}
    /\ pc = "done" =>
          /\ result.text = formatted_content
          /\ Len(result.image_url) > 0
          /\ result.char_count = Len(result.text)
          /\ branch \in FailedBranches \cup {"format"}
          /\ branch \in FailedBranches =>
                /\ \E day \in Days : result.text = fallback_text(strftime(day))
                /\ StartsWith(result.text, FALLBACK_OPENING)
                /\ Len(result.text) <= 800

\* C2 witness: the transport failed and the fallback record was returned
C2_TransportFailureDone ==
    /\ pc = "done"
    /\ branch = "exception"
    /\ StartsWith(result.text, FALLBACK_OPENING)
    /\ result.char_count = Len(result.text)
    /\ result.char_count > 500

\* C5: an invocation issues requests.post once and never again, a failed
\* attempt fixes the fallback text at once, and requests.head is issued once,
\* after the text is fixed and before the record is built
C5_OnePostOneProbe ==
    /\ posts <= 1
    /\ heads <= 1
    /\ pc = "post" => (posts = 1 /\ heads = 0 /\ branch = "none")
    /\ pc = "head" =>
          /\ posts = 1 /\ heads = 1
          /\ branch # "none"
          /\ Len(formatted_content) > 0
          /\ result = NoResult
    /\ pc = "done" =>
          /\ posts = 1 /\ heads = 1
          /\ result.text = formatted_content
    /\ (pc \in {"head", "done"} /\ branch \in FailedBranches) =>
          \E day \in Days : formatted_content = fallback_text(strftime(day))

\* C5 witness: the request answered with a status other than 200 or raised,
\* and the invocation ended after one post and one probe
C5_FailedOnceThenDone ==
    /\ pc = "done"
    /\ branch \in {"status", "exception"}
    /\ posts = 1
    /\ heads = 1

(***************************************************************************)
(* Inputs of the function-level specifications.                            *)
(***************************************************************************)
\* a bullet of n code points without inner white space: "• xxxx..."
SolidBullet(n) == BULLET_GLYPH \o Rep(120, n - 2)

\* a bullet of n code points made of four-letter words: "• abcd abcd ..."
WordyBullet(n) ==
    BULLET_GLYPH \o [i \in 1..(n - 2) |-> IF i % 5 = 0 THEN 32 ELSE 96 + (i % 5)]

ShortBullets == {SolidBullet(12), SolidBullet(40), WordyBullet(40)}

RECURSIVE ListsUpTo(_, _)
\* the lists of at most n members of S
ListsUpTo(S, n) ==
    IF n = 0 THEN {<<>>}
    ELSE LET shorter == ListsUpTo(S, n - 1)
         IN  shorter \cup {Append(l, x) : l \in shorter, x \in S}

(***************************************************************************)
(* SpecTruncate: _truncate_bullets_refined applied to drawn arguments.     *)
(***************************************************************************)
InitTruncate ==
    /\ InitProcessIdle
    /\ fn = "none"
    /\ arg \in [bullets : ListsUpTo(ShortBullets, MaxBullets) \ {<<>>},
                max_chars : 0..MaxBudget]
    /\ ret = <<>>

CallTruncate ==
    /\ fn = "none"
    /\ fn' = "_truncate_bullets_refined"
    /\ ret' = _truncate_bullets_refined(arg.bullets, arg.max_chars)
    /\ UNCHANGED <<arg, process_vars>>

NextTruncate == CallTruncate

SpecTruncate == InitTruncate /\ [][NextTruncate]_vars

RECURSIVE Cost(_, _)
\* the budget the first k bullets use: each its length and one separator
Cost(bullets, k) == IF k = 0 THEN 0 ELSE Cost(bullets, k - 1) + Len(bullets[k]) + 1

\* the longest prefix of the bullets that fits the budget
FullKept(bullets, budget) ==
    CHOOSE k \in 0..Len(bullets) :
        /\ Cost(bullets, k) <= budget
        /\ k < Len(bullets) => Cost(bullets, k + 1) > budget

\* what the budget walk keeps: the prefix that fits and, when a bullet is
\* left and more than 30 of the budget remain, that bullet cut to the
\* remaining budget less 3, stripped on the right, with "..." appended
Survivors(bullets, budget) ==
    LET k == FullKept(bullets, budget)
        remaining == budget - Cost(bullets, k)
    IN  IF k < Len(bullets) /\ remaining > 30
        THEN Append(SubSeq(bullets, 1, k),
                    RStrip(SubSeq(bullets[k + 1], 1, remaining - 3)) \o DOTS)
        ELSE SubSeq(bullets, 1, k)

\* C9 (as claimed): for every non-empty list and every budget, 0 included,
\* the result is the first 3 bullets when the walk keeps fewer than 3, and
\* what the walk keeps otherwise
C9_RevertForEveryBudget ==
    fn = "_truncate_bullets_refined" =>
        LET kept == Survivors(arg.bullets, arg.max_chars)
        IN  ret = IF Len(kept) < 3 THEN SubSeq(arg.bullets, 1, Min(3, Len(arg.bullets)))
                  ELSE kept

\* C9 (amended): a budget of 0 returns the empty list; for a budget above 0
\* the result is the first 3 bullets when the walk keeps fewer than 3, and
\* what the walk keeps otherwise
C9_RevertForPositiveBudget ==
    fn = "_truncate_bullets_refined" =>
        LET kept == Survivors(arg.bullets, arg.max_chars)
        IN  ret = IF arg.max_chars <= 0 THEN <<>>
                  ELSE IF Len(kept) < 3
                  THEN SubSeq(arg.bullets, 1, Min(3, Len(arg.bullets)))
                  ELSE kept

\* C9 witness: the walk kept two bullets whole and a third one shortened
C9_ShortenedThird ==
    /\ fn = "_truncate_bullets_refined"
    /\ Len(arg.bullets) > 3
    /\ Len(ret) = 3
    /\ ret[1] = arg.bullets[1] /\ ret[2] = arg.bullets[2]
    /\ ret[3] # arg.bullets[3]
    /\ EndsWith(ret[3], DOTS)
    /\ Len(ret[3]) < arg.max_chars - Cost(arg.bullets, 2)

(***************************************************************************)
(* SpecFormat: _format_content_refined, _create_refined_fallback_content   *)
(* and _convert_to_detailed_bullets, each called once on drawn arguments.  *)
(***************************************************************************)
MaxSentences == 10    \* most sentences of a drawn body
MaxDateLen == 900     \* longest date string drawn

\* a sentence of n letters and a full stop; its bullet has n + 2 code points
Sentence(n) == Rep(97, n) \o <<46>>

RECURSIVE Body(_, _)
\* k sentences of n letters, separated by spaces
Body(k, n) ==
    IF k = 0 THEN <<>>
    ELSE IF k = 1 THEN Sentence(n)
    ELSE Sentence(n) \o <<32>> \o Body(k - 1, n)

SentenceLetters == {10, 40, 78, 150}

\* "Bitcoin rally"
TITLE_PLAIN == <<66, 105, 116, 99, 111, 105, 110, 32, 114, 97, 108, 108, 121>>
\* "- market note"
TITLE_DASH == <<45, 32, 109, 97, 114, 107, 101, 116, 32, 110, 111, 116, 101>>
\* "• market note"
TITLE_BULLET == <<8226, 32, 109, 97, 114, 107, 101, 116, 32, 110, 111, 116, 101>>
\* a first line of 120 code points
TITLE_LONG == Rep(98, 120)
FirstLines == {TITLE_PLAIN, TITLE_DASH, TITLE_BULLET, TITLE_LONG}

Contents ==
    {Body(k, n) : k \in 0..MaxSentences, n \in SentenceLetters}
    \cup {first \o LF \o Body(k, 78) : first \in FirstLines, k \in {0, 5, MaxSentences}}

\* sentences of fewer than 40 code points that name, in capitals and in
\* letters outside ASCII, a key of the enhancements or a word close to one
\* "The marKet is calm today." with U+212A KELVIN SIGN
KELVIN_MARKET ==
    <<84, 104, 101, 32, 109, 97, 114, 8490, 101, 116, 32, 105, 115, 32, 99, 97,
      108, 109, 32, 116, 111, 100, 97, 121, 46>>
\* "The PRICE holds its level." and "BITCOIN TRADING slows down."
UPPER_PRICE ==
    <<84, 104, 101, 32, 80, 82, 73, 67, 69, 32, 104, 111, 108, 100, 115, 32, 105,
      116, 115, 32, 108, 101, 118, 101, 108, 46>>
UPPER_BITCOIN ==
    <<66, 73, 84, 67, 79, 73, 78, 32, 84, 82, 65, 68, 73, 78, 71, 32, 115, 108,
      111, 119, 115, 32, 100, 111, 119, 110, 46>>
\* "The PR\u0130CE holds steady." with U+0130, lowered to two code points
DOTTED_PRICE ==
    <<84, 104, 101, 32, 80, 82, 304, 67, 69, 32, 104, 111, 108, 100, 115, 32, 115,
      116, 101, 97, 100, 121, 46>>
\* "\u00c9THEREUM gains again." and "The ocean is calm today."
ACCENT_ETHEREUM ==
    <<201, 84, 72, 69, 82, 69, 85, 77, 32, 103, 97, 105, 110, 115, 32, 97, 103,
      97, 105, 110, 46>>
PLAIN_SENTENCE ==
    <<84, 104, 101, 32, 111, 99, 101, 97, 110, 32, 105, 115, 32, 99, 97, 108, 109,
      32, 116, 111, 100, 97, 121, 46>>
KeySentences ==
    {KELVIN_MARKET, UPPER_PRICE, UPPER_BITCOIN, DOTTED_PRICE, ACCENT_ETHEREUM,
     PLAIN_SENTENCE}

\* four sentences, the first three drawn and the last a plain one
KeyContents ==
    {a \o <<32>> \o b \o <<32>> \o c \o <<32>> \o PLAIN_SENTENCE :
        a \in KeySentences, b \in KeySentences, c \in {KELVIN_MARKET, PLAIN_SENTENCE}}

\* a text that holds a lone surrogate, which str.encode() rejects
LONE_SURROGATE == <<97, 55357, 98>>

\* the dates of Days, strings of digits around the lengths at which the
\* texts reach 800 code points, and a date that cannot be encoded
FormatDates ==
    {strftime(day) : day \in Days}
    \cup {Rep(57, n) : n \in {0, 229, 230, 698, 699, MaxDateLen}}
    \cup {LONE_SURROGATE}

\* the calls drawn: the function called and its arguments
FormatCalls ==
    [call : {"_format_content_refined"}, content : Contents, date : FormatDates]
    \cup [call : {"_create_refined_fallback_content"}, date : FormatDates]
    \cup [call : {"_convert_to_detailed_bullets"},
          content : Contents \cup KeyContents]

InitFormat ==
    /\ InitProcessIdle
    /\ fn = "none"
    /\ arg \in FormatCalls
    /\ ret = <<>>

CallFormat ==
    /\ fn = "none"
    /\ arg.call = "_format_content_refined"
    /\ fn' = "_format_content_refined"
    /\ ret' = _format_content_refined(arg.content, arg.date)
    /\ UNCHANGED <<arg, process_vars>>

\* lines 378-402 and the call of line 406 up to line 364: the text is
\* fixed and hashed, requests.head is issued for the selected URL and the
\* call waits for its answer; when the hashing raises, the record is
\* returned with the fallback image and no probe
CallFallback ==
    /\ fn = "none"
    /\ arg.call = "_create_refined_fallback_content"
    /\ fn' = "_create_refined_fallback_content"
    /\ \E text \in {fallback_text(arg.date)} :
          /\ formatted_content' = text
          /\ \E selected \in {select_image(text)} :
                IF selected.exc
                THEN /\ pc' = "done"
                     /\ selected_image' = <<>>
                     /\ heads' = heads
                     /\ ret' = make_result(text, FALLBACK_IMAGE)
                ELSE /\ pc' = "head"
                     /\ selected_image' = selected.val
                     /\ heads' = heads + 1
                     /\ ret' = ret
    /\ UNCHANGED <<arg, formatted_date, branch, result, posts, response, calls>>

\* line 364 returns or raises: lines 365-372, then lines 404-408
FallbackHeadReturns ==
    /\ fn = "_create_refined_fallback_content"
    /\ pc = "head"
    /\ \E probe \in ProbeOutcomes :
          /\ response' = probe
          /\ ret' = make_result(formatted_content,
                                probe_result(selected_image, probe))
    /\ pc' = "done"
    /\ UNCHANGED <<fn, arg, formatted_date, formatted_content, branch,
                   selected_image, result, posts, heads, calls>>

CallBullets ==
    /\ fn = "none"
    /\ arg.call = "_convert_to_detailed_bullets"
    /\ fn' = "_convert_to_detailed_bullets"
    /\ ret' = _convert_to_detailed_bullets(arg.content)
    /\ UNCHANGED <<arg, process_vars>>

NextFormat == CallFormat \/ CallFallback \/ FallbackHeadReturns \/ CallBullets

SpecFormat == InitFormat /\ [][NextFormat]_vars

\* the lines of a text, and those that open with the bullet glyph
Lines(text) == Split1(text, 10)
BulletLines(text) == SelectSeq(Lines(text), LAMBDA l : StartsWith(l, BULLET_GLYPH))

\* C1: the text returned by _format_content_refined, and the text of
\* _create_refined_fallback_content, has at most 800 code points for every
\* content and every date
C1_LengthAtMost800 ==
    /\ fn = "_format_content_refined" => Len(ret) <= 800
    /\ fn = "_create_refined_fallback_content" =>
          /\ pc \in {"head", "done"}
          /\ Len(formatted_content) <= 800
          /\ pc = "done" => ret.text = formatted_content

\* C1 witness: a date long enough that _format_content_refined cut its text
\* to 799 code points and the ellipsis
C1_ClampFired ==
    /\ fn = "_format_content_refined"
    /\ Len(arg.date) = 699
    /\ Len(ret) = 800
    /\ ret[800] = ELLIPSIS[1]
    /\ StartsWith(ret, TITLE_OPEN \o DEFAULT_TITLE \o TITLE_CLOSE)

\* C3 (as claimed): the text returned by _format_content_refined is made of
\* one title line, one date line, 3 to 6 bullet lines and the hashtag line
C3_Structure ==
    fn = "_format_content_refined" =>
        LET lines == Lines(ret)
            n == Len(lines)
        IN  /\ n >= 2
            /\ StartsWith(lines[1], TITLE_OPEN) /\ EndsWith(lines[1], TITLE_CLOSE)
            /\ lines[2] = DATE_OPEN \o arg.date \o DATE_CLOSE
            /\ Len(BulletLines(ret)) \in 3..6
            /\ lines[n] = hashtags_line
            /\ Len(SelectSeq(lines, LAMBDA l : StartsWith(l, TITLE_OPEN))) = 1
            /\ Len(SelectSeq(lines, LAMBDA l : StartsWith(l, DATE_OPEN))) = 1

\* whether the body yields 10 candidate bullets of 80 code points each
TenCandidates(content) ==
    LET candidates == candidate_bullets(Strip(sub_trailing_tags(content)))
    IN  /\ Len(candidates) = 10
        /\ \A i \in 1..10 : Len(candidates[i]) = 80

\* the occurrences of the bullet glyph in a text
BulletCount(text) == Cardinality({i \in 1..Len(text) : text[i] = BULLET_GLYPH[1]})

\* C4 (as claimed): for a body of 10 candidate bullets of 80 code points, the
\* text assembled from the header and the bullets exceeds 800 code points
\* and the returned text has at most 800 and keeps at least 3 bullets
C4_TenBulletsTruncated ==
    (fn = "_format_content_refined" /\ TenCandidates(arg.content)) =>
        /\ Len(assemble(formatted_header(DEFAULT_TITLE, arg.date),
                        _convert_to_detailed_bullets(arg.content))) > 800
        /\ Len(ret) <= 800
        /\ BulletCount(ret) >= 3

\* the title the claim expects for a content: its first line when that is
\* not empty, shorter than 120 and opens with neither "•" nor "-"
ExpectedTitle(content) ==
    LET first_line == Strip(Lines(content)[1])
    IN  IF /\ Len(first_line) > 0
           /\ Len(first_line) < 120
           /\ first_line[1] \notin {8226, 45}
        THEN first_line
        ELSE DEFAULT_TITLE

\* C8 (as claimed): the returned text opens with the header of the title
\* taken from the first line of the content
C8_TitleFromFirstLine ==
    fn = "_format_content_refined" =>
        StartsWith(ret, TITLE_OPEN \o ExpectedTitle(arg.content) \o TITLE_CLOSE)

(***************************************************************************)
(* SpecExtract: _extract_content_simple applied to drawn envelopes.        *)
(***************************************************************************)
MaxNest == 4          \* deepest nesting of a drawn envelope

\* a value one level deeper: under "content", under another key, in a list
Wraps(v) == {JDict(<<<<"content", v>>>>), JDict(<<<<"a", v>>>>), JList(<<v>>)}

RECURSIVE Nested(_)
\* the values nested at most n levels
Nested(n) ==
    IF n = 0 THEN Leaves
    ELSE LET inner == Nested(n - 1)
         IN  inner \cup UNION {Wraps(v) : v \in inner}

\* mappings and sequences of two entries
Pairs ==
    LET inner == Nested(1)
    IN  {JList(<<x, y>>) : x \in inner, y \in inner}
        \cup {JDict(<<<<"a", x>>, <<"b", y>>>>) : x \in inner, y \in inner}
        \cup {JDict(<<<<"content", x>>, <<"b", y>>>>) : x \in inner, y \in inner}

\* envelopes with a "choices" entry, of the standard shape or not
WithChoices ==
    {Standard(v) : v \in Leaves}
    \cup {JDict(<<<<"choices", c>>, <<"b", y>>>>) :
             c \in {JList(<<>>), JNum, JList(<<JDict(<<<<"message", JNum>>>>)>>),
                    JList(<<JDict(<<<<"message",
                                      JDict(<<<<"content", JStr(BLANK)>>>>)>>>>)>>)},
             y \in Nested(1)}

Envelopes == Nested(MaxNest) \cup Pairs \cup WithChoices

InitExtract ==
    /\ InitProcessIdle
    /\ fn = "none"
    /\ arg \in [data : Envelopes]
    /\ ret = <<>>

CallExtract ==
    /\ fn = "none"
    /\ fn' = "_extract_content_simple"
    /\ ret' = _extract_content_simple(arg.data)
    /\ UNCHANGED <<arg, process_vars>>

NextExtract == CallExtract

SpecExtract == InitExtract /\ [][NextExtract]_vars

RECURSIVE Matches(_)
RECURSIVE MatchesIn(_, _)
\* the matches of a depth-first traversal, in order: a string longer than 50
\* code points, the string under a mapping's own "content" key (the mapping
\* is then searched no further), the matches of the values of another
\* mapping or of a sequence
Matches(obj) ==
    IF obj.t = "str" THEN (IF Len(obj.s) > 50 THEN <<obj.s>> ELSE <<>>)
    ELSE IF obj.t = "dict" /\ \E i \in 1..Len(obj.items) :
                                 obj.items[i].k = "content" /\ obj.items[i].v.t = "str"
    THEN <<(CHOOSE e \in {obj.items[i] : i \in 1..Len(obj.items)} :
               e.k = "content").v.s>>
    ELSE MatchesIn(obj.items, 1)

MatchesIn(items, i) ==
    IF i > Len(items) THEN <<>> ELSE Matches(items[i].v) \o MatchesIn(items, i + 1)

\* whether a mapping anywhere in the value has a "content" key
RECURSIVE HasContentKey(_)
HasContentKey(obj) ==
    \E i \in 1..Len(obj.items) :
        (obj.t = "dict" /\ obj.items[i].k = "content") \/ HasContentKey(obj.items[i].v)

RECURSIVE HasLongString(_)
HasLongString(obj) ==
    \/ obj.t = "str" /\ Len(obj.s) > 50
    \/ \E i \in 1..Len(obj.items) : HasLongString(obj.items[i].v)

\* C7 (as claimed): when choices[0].message.content yields no content, the
\* result is the first match of the depth-first traversal, verbatim, and
\* the empty string when there is no match
C7_FirstMatchVerbatim ==
    (fn = "_extract_content_simple" /\ standard_content(arg.data).none) =>
        LET matches == Matches(arg.data)
        IN  ret = IF Len(matches) = 0 THEN <<>> ELSE matches[1]

\* C7 (amended): when choices[0].message.content yields no content, the
\* result is the first match that is not the empty string, stripped of
\* leading and trailing white space, and the empty string when every match
\* is empty or there is none; it is empty when the envelope holds neither a
\* "content" key nor a string longer than 50 code points
C7_FirstNonEmptyMatchStripped ==
    (fn = "_extract_content_simple" /\ standard_content(arg.data).none) =>
        LET matches == SelectSeq(Matches(arg.data), LAMBDA m : Len(m) > 0)
        IN  /\ ret = IF Len(matches) = 0 THEN <<>> ELSE Strip(matches[1])
            /\ (~HasContentKey(arg.data) /\ ~HasLongString(arg.data)) => ret = <<>>

\* C7 witness: a string under "content", three levels deep under other
\* keys, is found, and returned without the white space around it
C7_NestedContentFound ==
    /\ fn = "_extract_content_simple"
    /\ arg.data = JDict(<<<<"a", JDict(<<<<"a", JDict(<<<<"a",
                      JDict(<<<<"content", JStr(PADDED)>>>>)>>>>)>>>>)>>>>)
    /\ ret = <<88>>

(***************************************************************************)
(* SpecImage: _generate_unique_crypto_image called on drawn texts, with    *)
(* each answer of requests.head.                                           *)
(***************************************************************************)
MaxTextLen == 40      \* longest text of letters drawn

ImageTexts ==
    {fallback_text(strftime(day)) : day \in Days}
    \cup {format_except(strftime(day)) : day \in Days}
    \cup {Rep(97, n) : n \in 0..MaxTextLen}
    \cup {LONE_SURROGATE}

InitImage ==
    /\ InitProcessIdle
    /\ fn = "none"
    /\ arg \in [content : ImageTexts]
    /\ ret = <<>>

\* lines 344-364: the text is hashed, requests.head is issued for the
\* selected URL and the call waits for its answer; when the hashing raises,
\* lines 374-376 return the fallback URL with no probe
CallImage ==
    /\ fn = "none"
    /\ fn' = "_generate_unique_crypto_image"
    /\ \E selected \in {select_image(arg.content)} :
          IF selected.exc
          THEN /\ pc' = "done"
               /\ selected_image' = <<>>
               /\ heads' = heads
               /\ ret' = FALLBACK_IMAGE
          ELSE /\ pc' = "head"
               /\ selected_image' = selected.val
               /\ heads' = heads + 1
               /\ ret' = ret
    /\ UNCHANGED <<arg, formatted_date, formatted_content, branch, result,
                   posts, response, calls>>

\* line 364 returns or raises: lines 365-372
ImageHeadReturns ==
    /\ fn = "_generate_unique_crypto_image"
    /\ pc = "head"
    /\ \E probe \in ProbeOutcomes :
          /\ response' = probe
          /\ ret' = probe_result(selected_image, probe)
    /\ pc' = "done"
    /\ UNCHANGED <<fn, arg, formatted_date, formatted_content, branch,
                   selected_image, result, posts, heads, calls>>

NextImage == CallImage \/ ImageHeadReturns

SpecImage == InitImage /\ [][NextImage]_vars

\* the value of one hexadecimal digit
HexValue(c) == IF c <= 57 THEN c - 48 ELSE c - 87

RECURSIVE HexMod(_, _, _)
\* the number the first k hexadecimal digits of hex denote, modulo n
HexMod(hex, k, n) ==
    IF k = 0 THEN 0 ELSE (16 * HexMod(hex, k - 1, n) + HexValue(hex[k])) % n

\* C6: the URL returned is the entry of the seven-entry pool at index
\* (hash value mod 7) when requests.head answers 200; it is the pool's fifth
\* entry, the fallback URL, on another status, when requests.head raises,
\* and when the text cannot be hashed; it depends on the text and on the
\* answer of requests.head only
C6_ImageByHashAndProbe ==
    fn = "_generate_unique_crypto_image" =>
        LET bytes == encode(arg.content)
            hex == HexHead(Md5Head(bytes.val))
            pool == crypto_images(hex)
            confirmed == ~response.exc /\ response.status_code = 200
        IN  /\ Len(pool) = 7
            /\ pool[5] = FALLBACK_IMAGE
            /\ pc = "head" =>
                  (~bytes.exc /\ selected_image = pool[HexMod(hex, 8, 7) + 1])
            /\ pc = "done" =>
                  ret = IF bytes.exc \/ ~confirmed THEN pool[5]
                        ELSE pool[HexMod(hex, 8, 7) + 1]

\* C6 witness: requests.head answered 200 and the URL returned is the last
\* entry of the pool, index 6
C6_LastEntrySelected ==
    /\ fn = "_generate_unique_crypto_image"
    /\ pc = "done"
    /\ ~response.exc /\ response.status_code = 200
    /\ ret = URL_6
    /\ ret # FALLBACK_IMAGE

(***************************************************************************)
(* SpecLimit: lines 192-212 of _format_content_refined applied to drawn    *)
(* headers and bullet lists.                                               *)
(***************************************************************************)
MaxLimitDate == 300   \* longest date string drawn for the header

LimitBullets == {SolidBullet(100), WordyBullet(180), SolidBullet(400)}
LimitTitles == {DEFAULT_TITLE, TITLE_PLAIN, Rep(98, 119)}
LimitDates == {strftime(day) : day \in Days} \cup {Rep(57, MaxLimitDate)}

InitLimit ==
    /\ InitProcessIdle
    /\ fn = "none"
    /\ arg \in [title : LimitTitles, date : LimitDates,
                bullets : {l \in ListsUpTo(LimitBullets, max_bullets) :
                              Len(l) >= min_bullets}]
    /\ ret = <<>>

CallLimit ==
    /\ fn = "none"
    /\ fn' = "enforce_length"
    /\ ret' = enforce_length(formatted_header(arg.title, arg.date), arg.bullets)
    /\ UNCHANGED <<arg, process_vars>>

NextLimit == CallLimit

SpecLimit == InitLimit /\ [][NextLimit]_vars

\* the text of a header and a bullet list: every line, an empty line and the
\* hashtag line, joined as line 194 joins them
Assembled(title, date, bullets) ==
    TITLE_OPEN \o title \o TITLE_CLOSE \o DATE_OPEN \o date \o DATE_CLOSE
    \o JoinWith(<<>>, bullets) \o hashtags_line

\* the budget of the bullets: 800 less the header, 1, the hashtag line and 2
Budget(title, date) ==
    800 - (Len(TITLE_OPEN \o title \o TITLE_CLOSE \o DATE_OPEN \o date \o DATE_CLOSE)
           + 1 + 29 + 2)

\* C10: when the assembled text exceeds 800 code points and the budget walk
\* keeps at least 3 bullets, the text reassembled from the header, the kept
\* bullets and the hashtag line is returned; it has at most 800 code points
\* and ends with the whole hashtag line
C10_BudgetFitsWithoutClamp ==
    fn = "enforce_length" =>
        LET kept == Survivors(arg.bullets, Max(0, Budget(arg.title, arg.date)))
        IN  (/\ Len(Assembled(arg.title, arg.date, arg.bullets)) > 800
             /\ Len(kept) >= 3) =>
                /\ ret = Assembled(arg.title, arg.date, kept)
                /\ Len(ret) <= 800
                /\ EndsWith(ret, hashtags_line)

\* C10 witness: the walk kept three bullets and a fourth one shortened, and
\* the reassembled text uses more than 790 of the 800 code points
C10_TightFit ==
    /\ fn = "enforce_length"
    /\ Len(Assembled(arg.title, arg.date, arg.bullets)) > 800
    /\ Len(ret) > 790
    /\ Len(ret) <= 800
    /\ EndsWith(ret, DOTS \o hashtags_line)

====
